---- MODULE Spec2Model ----
(***************************************************************************)
(* Model of the update queue of the React 16.13.1 reconciler               *)
(* (packages/react-reconciler/src/ReactUpdateQueue.js).                    *)
(*                                                                         *)
(* Objects live in heaps and are addressed by reference: a reference is    *)
(* an index into the heap, 0 is null.  heap holds Update objects, queues   *)
(* holds UpdateQueue objects, shared holds SharedQueue objects, arrays     *)
(* holds the JavaScript arrays used for UpdateQueue.effects.               *)
(***************************************************************************)
EXTENDS Integers, Sequences, FiniteSets, TLC

VARIABLES
  heap,            \* Update objects
  queues,          \* UpdateQueue objects
  shared,          \* SharedQueue objects
  arrays,          \* effects arrays
  fibers,          \* the two fibers of a current / work-in-progress pair
  hasForceUpdate,  \* module-level flag of ReactUpdateQueue.js
  rootCurrent,     \* the fiber that is current (0: none, first mount)
  wip,             \* the fiber being rendered (0: no render in progress)
  called,          \* log: callbacks invoked by callCallback, in order
  unprocessed,     \* log: last argument of markUnprocessedUpdateTime
  enqueued,        \* log: updates passed to enqueueUpdate, in order
  captured,        \* log: updates passed to enqueueCapturedUpdate, and the
                   \* base queue each of them found
  pass,            \* log: what the last processUpdateQueue pass did
  op,              \* log: the last operation performed
  budget,          \* remaining operations of each bounded kind
  dropped,         \* log: updates passed to enqueueUpdate for a fiber that
                   \* has no update queue
  build,           \* the flags the bundle was built with: __DEV__ and
                   \* debugRenderPhaseSideEffectsForStrictMode
  syncQueue,                   \* SchedulerWithReactIntegration.js
  immediateQueueCallbackNode,  \* SchedulerWithReactIntegration.js
  isFlushingSyncQueue,         \* SchedulerWithReactIntegration.js
  tasks,           \* the callbacks the external scheduler was given
  currentPriorityLevel,  \* the priority level of the external scheduler
  callbacks,       \* the sync callbacks that were created
  executed,        \* log: invocations of sync callbacks, in order
  reentered,       \* log: flushes called from inside a sync callback
  lastFlush,       \* log: what the last flush found and how it ended
  ran,             \* log: the last runWithPriority or
                   \* getCurrentPriorityLevel call and what it saw
  asked,           \* log: the last scheduleSyncCallback, scheduleCallback
                   \* or cancelCallback call, what it found and returned
  root,            \* the FiberRoot: its pending, suspended, pinged and
                   \* expired times
  marked,          \* log: the last markRoot* call and the root it found
  since,           \* log: the times marked since the last call that
                   \* resets firstPendingTime or lastExpiredTime
  clock            \* log: the last call of a function of
                   \* ReactFiberExpirationTime.js, its arguments and results

\* the variables of SchedulerWithReactIntegration.js and of the scheduler
schedVars == <<syncQueue, immediateQueueCallbackNode, isFlushingSyncQueue,
               tasks, currentPriorityLevel, callbacks, executed, reentered,
               lastFlush, ran, asked>>

\* the variables of ReactUpdateQueue.js and of the fibers
queueVars == <<heap, queues, shared, arrays, fibers, hasForceUpdate,
               rootCurrent, wip, called, unprocessed, enqueued, captured,
               pass, op, budget, dropped, build>>

\* the variables of ReactFiberRoot.js
rootVars == <<root, marked, since>>

\* the variables the operations on a mounted fiber's queue leave alone
restVars == <<dropped, build, schedVars, rootVars, clock>>

vars == <<heap, queues, shared, arrays, fibers, hasForceUpdate, rootCurrent,
          wip, called, unprocessed, enqueued, captured, pass, op, budget,
          restVars>>

----------------------------------------------------------------------------
(* Bounds of the model *)

MaxUpdates == 3      \* updates created with createUpdate
MaxPasses == 3       \* processUpdateQueue passes
MaxRenders == 1      \* work-in-progress fibers (re-)created from current
MaxCaptured == 1     \* of them, enqueued with enqueueCapturedUpdate
MaxDropped == 1      \* of them, enqueued for a fiber without update queue
MaxTagged == 2       \* updates enqueued when every tag and payload is tried
MaxCallbacks == 3    \* sync callbacks passed to scheduleSyncCallback
MaxWork == 1         \* callbacks passed to scheduleCallback
MaxReentrant == 1    \* updates whose updater function enqueues an update
MaxRootTime == 4     \* largest expiration time passed to markRoot*
MaxMs == 260         \* times 0..MaxMs (in ms) are passed to the clock
MaxLate == 25        \* and the last MaxLate + 1 times below 2^31 and 2^32 * 10
MaxAhead == 530      \* units an expiration time lies ahead of currentTime
MaxTime == 2         \* expiration times 1..MaxTime are used by updates
MaxWalk == 40        \* steps after which a queue walk counts as diverging

----------------------------------------------------------------------------
(* Program constants *)

NoWork == 0
Sync == 1073741823

UpdateState == 0
ReplaceState == 1
ForceUpdate == 2
CaptureUpdate == 3

NoMode == 0
StrictMode == 1

NoEffect == 0
Callback == 32
DidCapture == 64
ShouldCapture == 4096

\* x | bit, x & ~bit and x & bit for a single-bit mask
HasBit(x, bit) == (x \div bit) % 2 = 1
SetBit(x, bit) == IF HasBit(x, bit) THEN x ELSE x + bit
ClearBit(x, bit) == IF HasBit(x, bit) THEN x - bit ELSE x

----------------------------------------------------------------------------
(* State values and payloads.                                              *)
(* A state is a JavaScript object: a function from field names to values.  *)
(* null is the object NullValue, which no payload can build.               *)

NullValue == [isNull |-> TRUE]
IsNull(v) == "isNull" \in DOMAIN v

EmptyObject == [k \in {} |-> 0]

\* Object.assign({}, a, b): null sources are ignored
ObjectAssign(a, b) ==
  LET da == IF IsNull(a) THEN {} ELSE DOMAIN a
      db == IF IsNull(b) THEN {} ELSE DOMAIN b
  IN [k \in da \cup db |-> IF k \in db THEN b[k] ELSE a[k]]

\* A payload is null, a literal value, or one of the updater functions below
NullPayload == [kind |-> "null", obj |-> EmptyObject, arg |-> 0]
ObjPayload(o) == [kind |-> "obj", obj |-> o, arg |-> 0]
FnPayload(name, n) == [kind |-> name, obj |-> EmptyObject, arg |-> n]

IsFunction(payload) == payload.kind \notin {"null", "obj"}

\* an updater function that calls setState: the update it enqueues has
\* expiration time t and appends to the log as well
ReentrantPayload(n, t) == [kind |-> "enqueue", obj |-> [time |-> t], arg |-> n]

\* payload.call(instance, prevState, nextProps) for the updater functions
\*   append:  (prev) => ({log: (prev.log || []).concat([arg])})
\*   toNull:  () => null
\*   enqueue: like append, after it has enqueued an update on the queue
\*            that is being processed (see Reenter below)
Call(payload, prevState, nextProps) ==
  CASE payload.kind \in {"append", "enqueue"} ->
         [log |-> (IF (~IsNull(prevState)) /\ "log" \in DOMAIN prevState
                   THEN prevState.log ELSE <<>>) \o <<payload.arg>>]
    [] payload.kind = "toNull" -> NullValue
    [] OTHER -> NullValue

\* the value of a non-function payload
Literal(payload) == IF payload.kind = "obj" THEN payload.obj ELSE NullValue

----------------------------------------------------------------------------
(* The world: every object the functions of ReactUpdateQueue.js can touch *)

World ==
  [heap |-> heap, queues |-> queues, shared |-> shared, arrays |-> arrays,
   fibers |-> fibers, hasForceUpdate |-> hasForceUpdate, called |-> called,
   unprocessed |-> unprocessed, build |-> build]

\* The updates of a circular list, oldest first, given its last element.
\* The walk stops when it comes back to the first element, at a null next,
\* or after MaxWalk steps.
RECURSIVE WalkFrom(_, _, _, _)
WalkFrom(h, first, u, n) ==
  IF u = 0 \/ n = 0 THEN <<>>
  ELSE IF h[u].next = first THEN <<u>>
  ELSE <<u>> \o WalkFrom(h, first, h[u].next, n - 1)

ListOf(h, last) ==
  IF last = 0 THEN <<>> ELSE WalkFrom(h, h[last].next, h[last].next, MaxWalk)

----------------------------------------------------------------------------
(* initializeUpdateQueue(fiber) *)
initializeUpdateQueue(w, fiber) ==
  LET sh == Append(w.shared, [pending |-> 0])
      queue == [baseState |-> w.fibers[fiber].memoizedState,
                baseQueue |-> 0,
                shared |-> Len(sh),
                effects |-> 0]
      qs == Append(w.queues, queue)
  IN [w EXCEPT !.shared = sh, !.queues = qs,
               !.fibers[fiber].updateQueue = Len(qs)]

(* cloneUpdateQueue(current, workInProgress) *)

\* a clone made without asking whether the queue is already a clone
cloneUpdateQueue_Always(w, current, workInProgress) ==
  LET currentQueue == w.fibers[current].updateQueue
      clone == [baseState |-> w.queues[currentQueue].baseState,
                baseQueue |-> w.queues[currentQueue].baseQueue,
                shared |-> w.queues[currentQueue].shared,
                effects |-> w.queues[currentQueue].effects]
      qs == Append(w.queues, clone)
  IN [w EXCEPT !.queues = qs,
               !.fibers[workInProgress].updateQueue = Len(qs)]

cloneUpdateQueue(w, current, workInProgress) ==
  LET queue == w.fibers[workInProgress].updateQueue
      currentQueue == w.fibers[current].updateQueue
  IN IF queue = currentQueue
     THEN LET clone == [baseState |-> w.queues[currentQueue].baseState,
                        baseQueue |-> w.queues[currentQueue].baseQueue,
                        shared |-> w.queues[currentQueue].shared,
                        effects |-> w.queues[currentQueue].effects]
              qs == Append(w.queues, clone)
          IN [w EXCEPT !.queues = qs,
                       !.fibers[workInProgress].updateQueue = Len(qs)]
     ELSE w

(* createUpdate(expirationTime, suspenseConfig): the new update is the    *)
(* last object of the heap.  id names the update in the logs; a clone     *)
(* made by processUpdateQueue carries the id of the update it copies.     *)
createUpdate(w, expirationTime, suspenseConfig, id) ==
  LET ref == Len(w.heap) + 1
      update == [expirationTime |-> expirationTime,
                 suspenseConfig |-> suspenseConfig,
                 tag |-> UpdateState,
                 payload |-> NullPayload,
                 callback |-> 0,
                 next |-> ref,
                 id |-> id]
  IN [w EXCEPT !.heap = Append(w.heap, update)]

(* enqueueUpdate(fiber, update) *)

\* an enqueue that links the update in but leaves shared.pending at the
\* update enqueued before
enqueueUpdate_PendingNotMoved(w, fiber, update) ==
  LET updateQueue == w.fibers[fiber].updateQueue
  IN IF updateQueue = 0 THEN w
     ELSE LET sharedQueue == w.queues[updateQueue].shared
              pending == w.shared[sharedQueue].pending
          IN IF pending = 0
             THEN [w EXCEPT !.heap[update].next = update,
                            !.shared[sharedQueue].pending = update]
             ELSE [[w EXCEPT !.heap[update].next = w.heap[pending].next]
                     EXCEPT !.heap[pending].next = update]

\* an enqueue that unlinks the update when the fiber has no queue
enqueueUpdate_UnlinksUpdate(w, fiber, update) ==
  LET updateQueue == w.fibers[fiber].updateQueue
  IN IF updateQueue = 0 THEN [w EXCEPT !.heap[update].next = 0]
     ELSE LET sharedQueue == w.queues[updateQueue].shared
              pending == w.shared[sharedQueue].pending
              w1 == IF pending = 0
                    THEN [w EXCEPT !.heap[update].next = update]
                    ELSE LET w0 == [w EXCEPT !.heap[update].next =
                                                w.heap[pending].next]
                         IN [w0 EXCEPT !.heap[pending].next = update]
          IN [w1 EXCEPT !.shared[sharedQueue].pending = update]

enqueueUpdate(w, fiber, update) ==
  LET updateQueue == w.fibers[fiber].updateQueue
  IN IF updateQueue = 0 THEN w
     ELSE LET sharedQueue == w.queues[updateQueue].shared
              pending == w.shared[sharedQueue].pending
              w1 == IF pending = 0
                    THEN [w EXCEPT !.heap[update].next = update]
                    ELSE LET w0 == [w EXCEPT !.heap[update].next =
                                                w.heap[pending].next]
                         IN [w0 EXCEPT !.heap[pending].next = update]
          IN [w1 EXCEPT !.shared[sharedQueue].pending = update]

(* enqueueCapturedUpdate(workInProgress, update) *)

\* lines 306-315, after the work-in-progress queue was made a clone
appendCaptured(w, workInProgress, update) ==
  LET queue == w.fibers[workInProgress].updateQueue
      last == w.queues[queue].baseQueue
  IN IF last = 0
     THEN [w EXCEPT !.queues[queue].baseQueue = update,
                    !.heap[update].next = update]
     ELSE [[w EXCEPT !.heap[update].next = w.heap[last].next]
             EXCEPT !.heap[last].next = update]

enqueueCapturedUpdate(w, workInProgress, update) ==
  appendCaptured(IF w.fibers[workInProgress].alternate # 0
                 THEN cloneUpdateQueue(w, w.fibers[workInProgress].alternate,
                                       workInProgress)
                 ELSE w,
                 workInProgress, update)

\* an UpdateState in which the fields of the previous state win over those
\* of the partial state
getStateFromUpdate_PrevWins(w, workInProgress, queue, update, prevState, nextProps, instance) ==
  LET u == w.heap[update]
      payload == u.payload
      merge(w1) ==
        LET partialState == IF IsFunction(payload)
                            THEN Call(payload, prevState, nextProps)
                            ELSE Literal(payload)
        IN [w |-> w1,
            state |-> IF IsNull(partialState) THEN prevState
                      ELSE ObjectAssign(partialState, prevState)]
  IN CASE u.tag = ReplaceState ->
            [w |-> w,
             state |-> IF IsFunction(payload)
                       THEN Call(payload, prevState, nextProps)
                       ELSE Literal(payload)]
       [] u.tag = CaptureUpdate ->
            merge([w EXCEPT !.fibers[workInProgress].effectTag =
                     SetBit(ClearBit(@, ShouldCapture), DidCapture)])
       [] u.tag = UpdateState -> merge(w)
       [] u.tag = ForceUpdate ->
            [w |-> [w EXCEPT !.hasForceUpdate = TRUE], state |-> prevState]
       [] OTHER -> [w |-> w, state |-> prevState]

\* a ReplaceState that merges like an UpdateState
getStateFromUpdate_ReplaceMerges(w, workInProgress, queue, update, prevState, nextProps, instance) ==
  LET u == w.heap[update]
      payload == u.payload
      merge(w1) ==
        LET partialState == IF IsFunction(payload)
                            THEN Call(payload, prevState, nextProps)
                            ELSE Literal(payload)
        IN [w |-> w1,
            state |-> IF IsNull(partialState) THEN prevState
                      ELSE ObjectAssign(prevState, partialState)]
  IN CASE u.tag = ReplaceState -> merge(w)
       [] u.tag = CaptureUpdate ->
            merge([w EXCEPT !.fibers[workInProgress].effectTag =
                     SetBit(ClearBit(@, ShouldCapture), DidCapture)])
       [] u.tag = UpdateState -> merge(w)
       [] u.tag = ForceUpdate ->
            [w |-> [w EXCEPT !.hasForceUpdate = TRUE], state |-> prevState]
       [] OTHER -> [w |-> w, state |-> prevState]

\* what the call of an updater function does to the world: the function
\* of kind enqueue creates an update and passes it to enqueueUpdate.  The
\* new update is named after the one whose updater made it.
Reenter(w, workInProgress, payload) ==
  IF payload.kind = "enqueue"
  THEN enqueueUpdate(
         [createUpdate(w, payload.obj.time, 0, payload.arg + MaxUpdates)
            EXCEPT !.heap[Len(w.heap) + 1].payload =
                      FnPayload("append", payload.arg + MaxUpdates)],
         workInProgress, Len(w.heap) + 1)
  ELSE w

\* lines 342-351 and 374-383: the world after the calls of an updater
\* function.  In a development bundle with
\* debugRenderPhaseSideEffectsForStrictMode, the updater of a StrictMode
\* fiber is called once more, before the call whose result is used.
callUpdater(w, workInProgress, payload) ==
  IF /\ w.build.DEV
     /\ w.build.debugRenderPhaseSideEffectsForStrictMode
     /\ HasBit(w.fibers[workInProgress].mode, StrictMode)
  THEN Reenter(Reenter(w, workInProgress, payload), workInProgress, payload)
  ELSE Reenter(w, workInProgress, payload)

(* getStateFromUpdate(workInProgress, queue, update, prevState, nextProps, *)
(* instance): the new world and the state it returns                       *)
getStateFromUpdate(w, workInProgress, queue, update, prevState, nextProps, instance) ==
  LET u == w.heap[update]
      payload == u.payload
      merge(w1) ==
        LET partialState == IF IsFunction(payload)
                            THEN Call(payload, prevState, nextProps)
                            ELSE Literal(payload)
        IN [w |-> IF IsFunction(payload)
                  THEN callUpdater(w1, workInProgress, payload)
                  ELSE w1,
            state |-> IF IsNull(partialState) THEN prevState
                      ELSE ObjectAssign(prevState, partialState)]
  IN CASE u.tag = ReplaceState ->
            [w |-> IF IsFunction(payload)
                   THEN callUpdater(w, workInProgress, payload)
                   ELSE w,
             state |-> IF IsFunction(payload)
                       THEN Call(payload, prevState, nextProps)
                       ELSE Literal(payload)]
       [] u.tag = CaptureUpdate ->
            merge([w EXCEPT !.fibers[workInProgress].effectTag =
                     SetBit(ClearBit(@, ShouldCapture), DidCapture)])
       [] u.tag = UpdateState -> merge(w)
       [] u.tag = ForceUpdate ->
            [w |-> [w EXCEPT !.hasForceUpdate = TRUE], state |-> prevState]
       [] OTHER -> [w |-> w, state |-> prevState]

----------------------------------------------------------------------------
(* processUpdateQueue(workInProgress, props, instance,                     *)
(* renderExpirationTime)                                                   *)

\* the object literals of lines 487-496 and 511-520
\* a clone that forgets the callback
cloneOf_NoCallback(u, expirationTime) ==
  [expirationTime |-> expirationTime,
   suspenseConfig |-> u.suspenseConfig,
   tag |-> u.tag,
   payload |-> u.payload,
   callback |-> 0,
   next |-> 0,
   id |-> u.id]

cloneOf(u, expirationTime) ==
  [expirationTime |-> expirationTime,
   suspenseConfig |-> u.suspenseConfig,
   tag |-> u.tag,
   payload |-> u.payload,
   callback |-> u.callback,
   next |-> 0,
   id |-> u.id]

\* lines 437-464: splice shared.pending onto baseQueue.  The result is the
\* new world and the local variable baseQueue.
splicePending(w, workInProgress) ==
  LET queue == w.fibers[workInProgress].updateQueue
      baseQueue == w.queues[queue].baseQueue
      sh == w.queues[queue].shared
      pendingQueue == w.shared[sh].pending
  IN IF pendingQueue # 0
     THEN LET w1 == IF baseQueue # 0
                    THEN LET baseFirst == w.heap[baseQueue].next
                             pendingFirst == w.heap[pendingQueue].next
                             w0 == [w EXCEPT !.heap[baseQueue].next =
                                                pendingFirst]
                         IN [w0 EXCEPT !.heap[pendingQueue].next = baseFirst]
                    ELSE w
              w2 == [w1 EXCEPT !.shared[sh].pending = 0]
              current == w2.fibers[workInProgress].alternate
              w3 == IF current # 0 /\ w2.fibers[current].updateQueue # 0
                    THEN [w2 EXCEPT
                            !.queues[w2.fibers[current].updateQueue].baseQueue
                               = pendingQueue]
                    ELSE w2
          IN [w |-> w3, baseQueue |-> pendingQueue]
     ELSE [w |-> w, baseQueue |-> baseQueue]

\* a skip that takes the base state anew at every skipped update
walkSkip_SnapshotEverySkip(L, update) ==
  LET w == L.w
      u == w.heap[update]
      updateExpirationTime == u.expirationTime
      clone == Len(w.heap) + 1
      h1 == Append(w.heap, cloneOf(u, u.expirationTime))
      h2 == IF L.newBaseQueueLast = 0 THEN h1
            ELSE [h1 EXCEPT ![L.newBaseQueueLast].next = clone]
  IN [L EXCEPT
        !.w = [w EXCEPT !.heap = h2],
        !.newBaseQueueFirst = IF L.newBaseQueueLast = 0 THEN clone ELSE @,
        !.newBaseState = L.newState,
        !.newBaseQueueLast = clone,
        !.newExpirationTime =
           IF updateExpirationTime > @ THEN updateExpirationTime ELSE @,
        !.trace = Append(@, [update |-> update, applied |-> FALSE,
                             prev |-> L.newState, state |-> L.newState])]

\* a skip that keeps the expiration time of the last skipped update
walkSkip_LastSkippedTime(L, update) ==
  LET w == L.w
      u == w.heap[update]
      updateExpirationTime == u.expirationTime
      clone == Len(w.heap) + 1
      h1 == Append(w.heap, cloneOf(u, u.expirationTime))
      h2 == IF L.newBaseQueueLast = 0 THEN h1
            ELSE [h1 EXCEPT ![L.newBaseQueueLast].next = clone]
  IN [L EXCEPT
        !.w = [w EXCEPT !.heap = h2],
        !.newBaseQueueFirst = IF L.newBaseQueueLast = 0 THEN clone ELSE @,
        !.newBaseState = IF L.newBaseQueueLast = 0 THEN L.newState ELSE @,
        !.newBaseQueueLast = clone,
        !.newExpirationTime = updateExpirationTime,
        !.trace = Append(@, [update |-> update, applied |-> FALSE,
                             prev |-> L.newState, state |-> L.newState])]

\* lines 483-506: the update has insufficient priority and is skipped.
\* L holds the world and the local variables of processUpdateQueue; trace
\* logs the visit: the update, whether it was applied, and the running
\* state before and after it.
walkSkip(L, update) ==
  LET w == L.w
      u == w.heap[update]
      updateExpirationTime == u.expirationTime
      clone == Len(w.heap) + 1
      h1 == Append(w.heap, cloneOf(u, u.expirationTime))
      h2 == IF L.newBaseQueueLast = 0 THEN h1
            ELSE [h1 EXCEPT ![L.newBaseQueueLast].next = clone]
  IN [L EXCEPT
        !.w = [w EXCEPT !.heap = h2],
        !.newBaseQueueFirst = IF L.newBaseQueueLast = 0 THEN clone ELSE @,
        !.newBaseState = IF L.newBaseQueueLast = 0 THEN L.newState ELSE @,
        !.newBaseQueueLast = clone,
        !.newExpirationTime =
           IF updateExpirationTime > @ THEN updateExpirationTime ELSE @,
        !.trace = Append(@, [update |-> update, applied |-> FALSE,
                             prev |-> L.newState, state |-> L.newState])]

\* lines 548-558: r is what getStateFromUpdate returned; the update is
\* recorded in queue.effects when it has a callback
recordEffect(r, workInProgress, queue, update) ==
  LET callback == r.w.heap[update].callback
      effects == r.w.queues[queue].effects
  IN IF callback # 0
     THEN IF effects = 0
          THEN [r.w EXCEPT
                  !.fibers[workInProgress].effectTag = SetBit(@, Callback),
                  !.arrays = Append(@, <<update>>),
                  !.queues[queue].effects = Len(r.w.arrays) + 1]
          ELSE [r.w EXCEPT
                  !.fibers[workInProgress].effectTag = SetBit(@, Callback),
                  !.arrays[effects] = Append(@, update)]
     ELSE r.w

\* lines 536-558: the local variables after the update was applied
applyUpdate(L, r, clone, workInProgress, queue, update) ==
  [L EXCEPT
     !.w = recordEffect(r, workInProgress, queue, update),
     !.newBaseQueueLast = clone,
     !.newState = r.state,
     !.trace = Append(@, [update |-> update, applied |-> TRUE,
                          prev |-> L.newState, state |-> r.state])]

\* a clone that keeps the expiration time of the update
rebase_KeepsTime(w, newBaseQueueLast, update) ==
  IF newBaseQueueLast # 0
  THEN [w EXCEPT !.heap =
          [Append(w.heap, cloneOf(w.heap[update],
                                  w.heap[update].expirationTime))
             EXCEPT ![newBaseQueueLast].next = Len(w.heap) + 1]]
  ELSE w

\* lines 510-522: an update applied after a skipped one is cloned onto the
\* new base queue with expirationTime Sync
rebase(w, newBaseQueueLast, update) ==
  IF newBaseQueueLast # 0
  THEN [w EXCEPT !.heap =
          [Append(w.heap, cloneOf(w.heap[update], Sync))
             EXCEPT ![newBaseQueueLast].next = Len(w.heap) + 1]]
  ELSE w

\* walkApply without lines 510-522: an update applied after a skipped one
\* is not kept in the new base queue
walkApply_NoRebase(L, workInProgress, update, props, instance) ==
  applyUpdate(L,
          getStateFromUpdate(L.w, workInProgress,
                             L.w.fibers[workInProgress].updateQueue, update,
                             L.newState, props, instance),
          L.newBaseQueueLast,
          workInProgress, L.w.fibers[workInProgress].updateQueue, update)

\* lines 507-559: the update has sufficient priority and is applied
walkApply(L, workInProgress, update, props, instance) ==
  applyUpdate(L,
          getStateFromUpdate(rebase(L.w, L.newBaseQueueLast, update),
                             workInProgress,
                             L.w.fibers[workInProgress].updateQueue, update,
                             L.newState, props, instance),
          IF L.newBaseQueueLast # 0 THEN Len(L.w.heap) + 1 ELSE 0,
          workInProgress, L.w.fibers[workInProgress].updateQueue, update)

\* a loop that ends at the end of the list it began with
walkAdvance_NoRecheck(L, workInProgress, update) ==
  LET next == L.w.heap[update].next
  IN IF next = 0 \/ next = L.first
     THEN [L EXCEPT !.update = next, !.done = TRUE]
     ELSE [L EXCEPT !.update = next]

\* lines 561-576: advance to the next update; at the end of the list, stop
\* or splice in the updates that were enqueued during the walk
walkAdvance(L, workInProgress, update) ==
  LET next == L.w.heap[update].next
      queue == L.w.fibers[workInProgress].updateQueue
      sh == L.w.queues[queue].shared
      pendingQueue == L.w.shared[sh].pending
  IN IF next = 0 \/ next = L.first
     THEN IF pendingQueue = 0
          THEN [L EXCEPT !.update = next, !.done = TRUE]
          ELSE LET pendingFirst == L.w.heap[pendingQueue].next
                   wa == [L.w EXCEPT !.heap[L.baseQueue].next = pendingFirst]
                   wb == [wa EXCEPT !.heap[pendingQueue].next = L.first]
                   wc == [wb EXCEPT !.queues[queue].baseQueue = pendingQueue,
                                    !.shared[sh].pending = 0]
               IN [L EXCEPT !.w = wc, !.update = pendingFirst,
                            !.baseQueue = pendingQueue]
     ELSE [L EXCEPT !.update = next]

\* lines 479-577: one iteration of the do-while loop
walkStep(L, workInProgress, props, instance, renderExpirationTime) ==
  LET update == L.update
      updateExpirationTime == L.w.heap[update].expirationTime
      L1 == IF updateExpirationTime < renderExpirationTime
            THEN walkSkip(L, update)
            ELSE walkApply(L, workInProgress, update, props, instance)
  IN walkAdvance(L1, workInProgress, update)

RECURSIVE walk(_, _, _, _, _)
walk(L, workInProgress, props, instance, renderExpirationTime) ==
  IF L.done THEN L
  ELSE IF L.fuel = 0 THEN [L EXCEPT !.diverged = TRUE]
  ELSE walk([walkStep(L, workInProgress, props, instance,
                      renderExpirationTime) EXCEPT !.fuel = @ - 1],
            workInProgress, props, instance, renderExpirationTime)

\* lines 466-478: the local variables before the loop; s is the result of
\* splicePending
beforeWalk(s, queue) ==
  [w |-> s.w,
   newState |-> s.w.queues[queue].baseState,
   newExpirationTime |-> NoWork,
   newBaseState |-> NullValue,
   newBaseQueueFirst |-> 0,
   newBaseQueueLast |-> 0,
   first |-> IF s.baseQueue # 0 THEN s.w.heap[s.baseQueue].next ELSE 0,
   update |-> IF s.baseQueue # 0 THEN s.w.heap[s.baseQueue].next ELSE 0,
   baseQueue |-> s.baseQueue,
   trace |-> <<>>,
   fuel |-> MaxWalk,
   done |-> FALSE,
   diverged |-> FALSE]

\* a new base queue whose last update is not linked back to the first
afterWalk_NotClosed(L, queue, workInProgress) ==
  LET newBaseState == IF L.newBaseQueueLast = 0 THEN L.newState
                      ELSE L.newBaseState
  IN [L EXCEPT
        !.newBaseState = newBaseState,
        !.w = [L.w EXCEPT
                 !.queues[queue].baseState = newBaseState,
                 !.queues[queue].baseQueue = L.newBaseQueueLast,
                 !.unprocessed = L.newExpirationTime,
                 !.fibers[workInProgress].expirationTime =
                    L.newExpirationTime,
                 !.fibers[workInProgress].memoizedState = L.newState]]

\* lines 580-600: the new base state and base queue are stored in the
\* queue, the remaining expiration time and the new state in the fiber
afterWalk(L, queue, workInProgress) ==
  LET newBaseState == IF L.newBaseQueueLast = 0 THEN L.newState
                      ELSE L.newBaseState
      heap1 == IF L.newBaseQueueLast = 0 THEN L.w.heap
               ELSE [L.w.heap EXCEPT ![L.newBaseQueueLast].next =
                                        L.newBaseQueueFirst]
  IN [L EXCEPT
        !.newBaseState = newBaseState,
        !.w = [L.w EXCEPT
                 !.heap = heap1,
                 !.queues[queue].baseState = newBaseState,
                 !.queues[queue].baseQueue = L.newBaseQueueLast,
                 !.unprocessed = L.newExpirationTime,
                 !.fibers[workInProgress].expirationTime =
                    L.newExpirationTime,
                 !.fibers[workInProgress].memoizedState = L.newState]]

\* lines 467-601
walkQueue(L0, queue, workInProgress, props, instance, renderExpirationTime) ==
  IF L0.baseQueue # 0
  THEN afterWalk(IF L0.first # 0
                 THEN walk(L0, workInProgress, props, instance,
                           renderExpirationTime)
                 ELSE L0,
                 queue, workInProgress)
  ELSE L0

\* a pass that does not clear hasForceUpdate when it begins
processUpdateQueue_FlagKept(w, workInProgress, props, instance, renderExpirationTime) ==
  walkQueue(beforeWalk(splicePending(w, workInProgress),
                       w.fibers[workInProgress].updateQueue),
            w.fibers[workInProgress].updateQueue, workInProgress, props,
            instance, renderExpirationTime)

\* The result is the record of the local variables after the loop, in
\* which w is the world processUpdateQueue leaves.
processUpdateQueue(w, workInProgress, props, instance, renderExpirationTime) ==
  walkQueue(beforeWalk(splicePending([w EXCEPT !.hasForceUpdate = FALSE],
                                     workInProgress),
                       w.fibers[workInProgress].updateQueue),
            w.fibers[workInProgress].updateQueue, workInProgress, props,
            instance, renderExpirationTime)

----------------------------------------------------------------------------
(* resetHasForceUpdateBeforeProcessing, checkHasForceUpdateAfterProcessing *)

resetHasForceUpdateBeforeProcessing(w) == [w EXCEPT !.hasForceUpdate = FALSE]

checkHasForceUpdateAfterProcessing(w) == w.hasForceUpdate

----------------------------------------------------------------------------
(* commitUpdateQueue(finishedWork, finishedQueue, instance) *)

RECURSIVE commitEffects(_, _, _)
commitEffects(w, effects, i) ==
  IF i > Len(effects) THEN w
  ELSE LET effect == effects[i]
           callback == w.heap[effect].callback
       IN IF callback # 0
          THEN commitEffects([w EXCEPT !.heap[effect].callback = 0,
                                       !.called = Append(@, callback)],
                             effects, i + 1)
          ELSE commitEffects(w, effects, i + 1)

\* a commit that leaves the effects list in the queue
commitUpdateQueue_KeepEffects(w, finishedWork, finishedQueue, instance) ==
  LET effects == w.queues[finishedQueue].effects
  IN IF effects # 0
     THEN commitEffects(w, w.arrays[effects], 1)
     ELSE w

commitUpdateQueue(w, finishedWork, finishedQueue, instance) ==
  LET effects == w.queues[finishedQueue].effects
  IN IF effects # 0
     THEN commitEffects([w EXCEPT !.queues[finishedQueue].effects = 0],
                        w.arrays[effects], 1)
     ELSE [w EXCEPT !.queues[finishedQueue].effects = 0]

----------------------------------------------------------------------------
(* SchedulerWithReactIntegration.js: the queue of sync callbacks.          *)
(* The scheduler package is external: of it the model keeps the list of    *)
(* callbacks it was given, whether each was cancelled or run, and its      *)
(* current priority level.                                                 *)

ImmediatePriority == 99
UserBlockingPriority == 98
NormalPriority == 97
LowPriority == 96
IdlePriority == 95
NoPriority == 90
Scheduler_ImmediatePriority == 1
Scheduler_UserBlockingPriority == 2
Scheduler_NormalPriority == 3
Scheduler_LowPriority == 4
Scheduler_IdlePriority == 5

\* a JavaScript array
Array(items) == [items |-> items]

SchedWorld ==
  [syncQueue |-> syncQueue,
   immediateQueueCallbackNode |-> immediateQueueCallbackNode,
   isFlushingSyncQueue |-> isFlushingSyncQueue,
   tasks |-> tasks,
   currentPriorityLevel |-> currentPriorityLevel,
   callbacks |-> callbacks,
   executed |-> executed,
   reentered |-> reentered]

\* Scheduler_scheduleCallback(priorityLevel, callback): the node it
\* returns is the position of the new task
Scheduler_scheduleCallback(s, priorityLevel, callback) ==
  [s EXCEPT !.tasks = Append(@, [priorityLevel |-> priorityLevel,
                                 callback |-> callback,
                                 state |-> "scheduled"])]

Scheduler_cancelCallback(s, node) ==
  IF s.tasks[node].state = "scheduled"
  THEN [s EXCEPT !.tasks[node].state = "cancelled"]
  ELSE s

\* what a sync callback does when it is invoked
\*   done:     returns null
\*   continue: returns a continuation, which returns null
\*   continueTwice: returns a continuation, which returns a continuation,
\*             which returns null
\*   throw:    throws
\*   flush:    calls flushSyncCallbackQueue() and returns null
\*   schedule: calls scheduleSyncCallback(a new callback) and returns null
CallbackKinds ==
  {"done", "continue", "continueTwice", "throw", "flush", "schedule"}

newCallback(s, kind) == [s EXCEPT !.callbacks = Append(@, [kind |-> kind])]

\* a sync queue that asks the scheduler for a flush at every call
scheduleSyncCallback_AlwaysSchedules(s, callback) ==
  IF IsNull(s.syncQueue)
  THEN [Scheduler_scheduleCallback(s, Scheduler_ImmediatePriority,
                                   "flushSyncCallbackQueueImpl")
          EXCEPT !.syncQueue = Array(<<callback>>),
                 !.immediateQueueCallbackNode = Len(s.tasks) + 1]
  ELSE [Scheduler_scheduleCallback(s, Scheduler_ImmediatePriority,
                                   "flushSyncCallbackQueueImpl")
          EXCEPT !.syncQueue.items = Append(@, callback),
                 !.immediateQueueCallbackNode = Len(s.tasks) + 1]

(* scheduleSyncCallback(callback) *)
scheduleSyncCallback(s, callback) ==
  IF IsNull(s.syncQueue)
  THEN [Scheduler_scheduleCallback(s, Scheduler_ImmediatePriority,
                                   "flushSyncCallbackQueueImpl")
          EXCEPT !.syncQueue = Array(<<callback>>),
                 !.immediateQueueCallbackNode = Len(s.tasks) + 1]
  ELSE [s EXCEPT !.syncQueue.items = Append(@, callback)]

\* the invocation is logged with the priority level the callback finds
invoked(s, callback, continuation) ==
  [s EXCEPT !.executed =
     Append(@, [callback |-> callback, continuation |-> continuation,
                priority |-> s.currentPriorityLevel])]

\* the nested flush is logged with what it found and what it left
nested(before, after, callback) ==
  [after EXCEPT !.reentered =
     Append(@, [callback |-> callback,
                executedBefore |-> Len(before.executed),
                executedAfter |-> Len(after.executed),
                queueBefore |-> before.syncQueue,
                queueAfter |-> after.syncQueue])]

RECURSIVE flushSyncCallbackQueue(_)
RECURSIVE flushSyncCallbackQueueImpl(_)
RECURSIVE flushLoop(_, _)
RECURSIVE runCallback(_, _)

\* a loop that calls the first continuation only
runCallback_FirstContinuation(s, callback) ==
  LET kind == s.callbacks[callback].kind
      s1 == invoked(s, callback, FALSE)
  IN CASE kind = "done" -> [s |-> s1, error |-> 0]
       [] kind \in {"continue", "continueTwice"} ->
            [s |-> invoked(s1, callback, TRUE), error |-> 0]
       [] kind = "throw" -> [s |-> s1, error |-> callback]
       [] kind = "flush" ->
            LET r == flushSyncCallbackQueue(s1)
            IN [s |-> nested(s1, r.s, callback), error |-> r.error]
       [] kind = "schedule" ->
            [s |-> scheduleSyncCallback(newCallback(s1, "done"),
                                        Len(s1.callbacks) + 1),
             error |-> 0]

\* lines 192-196: the callback and its continuations are called until one
\* returns null.  The result is the new world and the error that was
\* thrown (0: none; otherwise the callback that threw).
runCallback(s, callback) ==
  LET kind == s.callbacks[callback].kind
      s1 == invoked(s, callback, FALSE)
  IN CASE kind = "done" -> [s |-> s1, error |-> 0]
       [] kind = "continue" ->
            [s |-> invoked(s1, callback, TRUE), error |-> 0]
       [] kind = "continueTwice" ->
            [s |-> invoked(invoked(s1, callback, TRUE), callback, TRUE),
             error |-> 0]
       [] kind = "throw" -> [s |-> s1, error |-> callback]
       [] kind = "flush" ->
            LET r == flushSyncCallbackQueue(s1)
            IN [s |-> nested(s1, r.s, callback), error |-> r.error]
       [] kind = "schedule" ->
            [s |-> scheduleSyncCallback(newCallback(s1, "done"),
                                        Len(s1.callbacks) + 1),
             error |-> 0]

\* lines 191-197: the for loop; i counts from 0 and queue is syncQueue,
\* the array that scheduleSyncCallback pushes to during the flush
\* (r is bound as the one element of a set: it is computed once)
flushLoop(s, i) ==
  IF i >= Len(s.syncQueue.items) THEN [s |-> s, error |-> 0, i |-> i]
  ELSE CHOOSE ended \in
         {IF r.error # 0 THEN [s |-> r.s, error |-> r.error, i |-> i]
          ELSE flushLoop(r.s, i + 1) :
            r \in {runCallback(s, s.syncQueue.items[i + 1])}} : TRUE

\* a catch clause that keeps the callback that threw
flushThrew_KeepsThrower(s, i) ==
  Scheduler_scheduleCallback(
    IF ~IsNull(s.syncQueue)
    THEN [s EXCEPT !.syncQueue =
            Array(SubSeq(s.syncQueue.items, i + 1, Len(s.syncQueue.items)))]
    ELSE s,
    Scheduler_ImmediatePriority, "flushSyncCallbackQueue")

\* a catch clause that asks for no further flush
flushThrew_NoReschedule(s, i) ==
  IF ~IsNull(s.syncQueue)
  THEN [s EXCEPT !.syncQueue =
          Array(SubSeq(s.syncQueue.items, i + 2, Len(s.syncQueue.items)))]
  ELSE s

\* lines 201-211: the catch clause
flushThrew(s, i) ==
  Scheduler_scheduleCallback(
    IF ~IsNull(s.syncQueue)
    THEN [s EXCEPT !.syncQueue =
            Array(SubSeq(s.syncQueue.items, i + 2, Len(s.syncQueue.items)))]
    ELSE s,
    Scheduler_ImmediatePriority, "flushSyncCallbackQueue")

\* lines 183-214 once the loop has ended or thrown: syncQueue = null or the
\* catch clause, then the finally clause; runWithPriority has restored the
\* priority level
flushEnded(r, priorityLevel) ==
  [s |-> [(IF r.error = 0 THEN [r.s EXCEPT !.syncQueue = NullValue]
           ELSE flushThrew(r.s, r.i))
            EXCEPT !.isFlushingSyncQueue = FALSE,
                   !.currentPriorityLevel = priorityLevel],
   error |-> r.error]

\* a flush that empties the queue when it is called during a flush
flushSyncCallbackQueueImpl_NestedEmpties(s) ==
  IF ~s.isFlushingSyncQueue /\ ~IsNull(s.syncQueue)
  THEN flushEnded(flushLoop([s EXCEPT
                               !.isFlushingSyncQueue = TRUE,
                               !.currentPriorityLevel =
                                  Scheduler_ImmediatePriority], 0),
                  s.currentPriorityLevel)
  ELSE [s |-> IF IsNull(s.syncQueue) THEN s
              ELSE [s EXCEPT !.syncQueue = Array(<<>>)],
        error |-> 0]

(* flushSyncCallbackQueueImpl() *)
flushSyncCallbackQueueImpl(s) ==
  IF ~s.isFlushingSyncQueue /\ ~IsNull(s.syncQueue)
  THEN flushEnded(flushLoop([s EXCEPT
                               !.isFlushingSyncQueue = TRUE,
                               !.currentPriorityLevel =
                                  Scheduler_ImmediatePriority], 0),
                  s.currentPriorityLevel)
  ELSE [s |-> s, error |-> 0]

(* flushSyncCallbackQueue() *)
flushSyncCallbackQueue(s) ==
  flushSyncCallbackQueueImpl(
    IF s.immediateQueueCallbackNode # 0
    THEN [Scheduler_cancelCallback(s, s.immediateQueueCallbackNode)
            EXCEPT !.immediateQueueCallbackNode = 0]
    ELSE s)

NoFlush ==
  [caller |-> "none", entered |-> FALSE, queueBefore |-> NullValue,
   executedBefore |-> 0, callbacksBefore |-> 0, tasksBefore |-> 0,
   error |-> 0]

\* the external scheduler runs a task it was given: the callback is called
\* at the priority level of the task, and the level is restored after it
runTask(s, node) ==
  IF s.tasks[node].callback = "work"
  THEN [s |-> [s EXCEPT !.tasks[node].state = "done"], error |-> 0]
  ELSE IF s.tasks[node].callback = "flushSyncCallbackQueueImpl"
  THEN flushSyncCallbackQueueImpl(
         [s EXCEPT !.tasks[node].state = "done",
                   !.currentPriorityLevel = s.tasks[node].priorityLevel])
  ELSE flushSyncCallbackQueue(
         [s EXCEPT !.tasks[node].state = "done",
                   !.currentPriorityLevel = s.tasks[node].priorityLevel])

\* the node scheduleSyncCallback returns; the nodes of the scheduler are
\* the positions 1, 2, ... of its tasks
fakeCallbackNode == 0 - 1

(* cancelCallback(callbackNode) *)
cancelCallback(s, callbackNode) ==
  IF callbackNode # fakeCallbackNode
  THEN Scheduler_cancelCallback(s, callbackNode)
  ELSE s

NoAsk ==
  [op |-> "none", argument |-> 0, returned |-> 0, error |-> "none",
   queueBefore |-> NullValue, tasksBefore |-> <<>>]

\* what a function returns, or the invariant violation it raises
Returns(value) == [value |-> value, error |-> "none"]

\* invariant(false, 'Unknown priority level.')
UnknownPriorityLevel == [value |-> 0, error |-> "invariant"]

(* getCurrentPriorityLevel(), level being what *)
(* Scheduler_getCurrentPriorityLevel() returns *)
getCurrentPriorityLevel(level) ==
  CASE level = Scheduler_ImmediatePriority -> Returns(ImmediatePriority)
    [] level = Scheduler_UserBlockingPriority -> Returns(UserBlockingPriority)
    [] level = Scheduler_NormalPriority -> Returns(NormalPriority)
    [] level = Scheduler_LowPriority -> Returns(LowPriority)
    [] level = Scheduler_IdlePriority -> Returns(IdlePriority)
    [] OTHER -> UnknownPriorityLevel

\* LowPriority run at the scheduler's normal level
reactPriorityToSchedulerPriority_LowAsNormal(reactPriorityLevel) ==
  CASE reactPriorityLevel = ImmediatePriority ->
         Returns(Scheduler_ImmediatePriority)
    [] reactPriorityLevel = UserBlockingPriority ->
         Returns(Scheduler_UserBlockingPriority)
    [] reactPriorityLevel = NormalPriority ->
         Returns(Scheduler_NormalPriority)
    [] reactPriorityLevel = LowPriority ->
         Returns(Scheduler_NormalPriority)
    [] reactPriorityLevel = IdlePriority ->
         Returns(Scheduler_IdlePriority)
    [] OTHER -> UnknownPriorityLevel

(* reactPriorityToSchedulerPriority(reactPriorityLevel) *)
reactPriorityToSchedulerPriority(reactPriorityLevel) ==
  CASE reactPriorityLevel = ImmediatePriority ->
         Returns(Scheduler_ImmediatePriority)
    [] reactPriorityLevel = UserBlockingPriority ->
         Returns(Scheduler_UserBlockingPriority)
    [] reactPriorityLevel = NormalPriority ->
         Returns(Scheduler_NormalPriority)
    [] reactPriorityLevel = LowPriority ->
         Returns(Scheduler_LowPriority)
    [] reactPriorityLevel = IdlePriority ->
         Returns(Scheduler_IdlePriority)
    [] OTHER -> UnknownPriorityLevel

\* what the function passed to runWithPriority does
\*   read:  calls getCurrentPriorityLevel() and returns
\*   throw: calls getCurrentPriorityLevel() and throws
\*   nest:  calls getCurrentPriorityLevel(), then runWithPriority(inner, a
\*          function of kind innerKind), then getCurrentPriorityLevel()
Reads == [kind |-> "read", inner |-> 0, innerKind |-> "none"]

Throws == [kind |-> "throw", inner |-> 0, innerKind |-> "none"]

RECURSIVE runWithPriority(_, _, _)

\* the call of fn at the scheduler's priority level: the level it leaves,
\* the priority levels it saw, and whether it returned
callFn(level, fn) ==
  LET first == getCurrentPriorityLevel(level).value
  IN CASE fn.kind = "read" ->
            [level |-> level, seen |-> <<first>>, error |-> "none"]
       [] fn.kind = "throw" ->
            [level |-> level, seen |-> <<first>>, error |-> "thrown"]
       [] fn.kind = "nest" ->
            LET r == runWithPriority(level, fn.inner,
                                     IF fn.innerKind = "throw" THEN Throws
                                     ELSE Reads)
            IN [level |-> r.level,
                seen |-> <<first>> \o r.seen \o
                           (IF r.error = "none"
                            THEN <<getCurrentPriorityLevel(r.level).value>>
                            ELSE <<>>),
                error |-> r.error]

\* Scheduler_runWithPriority(priorityLevel, fn) of the scheduler package:
\* fn is called at priorityLevel and the previous level is restored when
\* it returns or throws
Scheduler_runWithPriority(level, priorityLevel, fn) ==
  [callFn(priorityLevel, fn) EXCEPT !.level = level]

(* runWithPriority(reactPriorityLevel, fn) *)
runWithPriority(level, reactPriorityLevel, fn) ==
  LET priorityLevel == reactPriorityToSchedulerPriority(reactPriorityLevel)
  IN IF priorityLevel.error # "none"
     THEN [level |-> level, seen |-> <<>>, error |-> priorityLevel.error]
     ELSE Scheduler_runWithPriority(level, priorityLevel.value, fn)

(* scheduleCallback(reactPriorityLevel, callback, options): the world *)
(* after the call and the node or the invariant violation              *)
scheduleCallback(s, reactPriorityLevel, callback) ==
  LET priorityLevel == reactPriorityToSchedulerPriority(reactPriorityLevel)
  IN IF priorityLevel.error # "none"
     THEN [s |-> s, returned |-> 0, error |-> priorityLevel.error]
     ELSE [s |-> Scheduler_scheduleCallback(s, priorityLevel.value, callback),
           returned |-> Len(s.tasks) + 1, error |-> "none"]

NoRun ==
  [op |-> "none", reactPriorityLevel |-> 0, fn |-> Reads, before |-> 0,
   seen |-> <<>>, error |-> "none", after |-> 0]

----------------------------------------------------------------------------
(* ReactFiberExpirationTime.js: times in ms and expiration times.          *)
(* A time in ms is a whole number here: of a fraction of a ms the          *)
(* functions keep nothing, (ms / UNIT_SIZE) | 0 drops it.                  *)
(* now() returns the ms since the module was loaded, a JavaScript number   *)
(* without a bound, and integers end at Int32Max here: a time in ms is     *)
(* given as Wide(hi, lo), the number hi * 2^31 + lo with 0 <= lo < 2^31.   *)

Never == 1
Idle == 2
Batched == Sync - 1

UNIT_SIZE == 10
MAGIC_NUMBER_OFFSET == Batched - 1

\* the largest number that | 0 returns: 2^31 - 1
Int32Max == 2147483647

Wide(hi, lo) == [hi |-> hi, lo |-> lo]

\* (num / den) | 0 for whole num and den > 0: the quotient without its
\* fraction, towards zero.  The quotient of a 32-bit number is a 32-bit
\* number, which | 0 leaves as it is.
TruncDiv(num, den) ==
  IF num >= 0 THEN num \div den ELSE 0 - ((0 - num) \div den)

\* a + b as | 0 leaves it, for b >= 0: a sum above Int32Max comes back
\* 2^32 lower
Add32(a, b) ==
  IF a > Int32Max - b THEN (a - Int32Max) + (b - Int32Max) - 2 ELSE a + b

\* n * c as | 0 leaves it, for n >= 0 and c >= 0
RECURSIVE Times32(_, _)
Times32(n, c) == IF n = 0 THEN 0 ELSE Add32(Times32(n - 1, c), c)

\* (num / den) | 0 for a time num = Wide(hi, lo) and den > 0: the quotient
\* without its fraction, brought into -2^31 .. 2^31 - 1 by | 0 (ToInt32).
\* 2^31 = q31 * den + r31, and so the quotient is
\* hi * q31 + lo div den + (hi * r31 + lo mod den) div den.
TruncDivWide(num, den) ==
  LET q31 == (Int32Max \div den)
               + (IF Int32Max % den = den - 1 THEN 1 ELSE 0)
      r31 == ((Int32Max % den) + 1) % den
  IN Add32(Add32(Times32(num.hi, q31), num.lo \div den),
           (num.hi * r31 + (num.lo % den)) \div den)

\* MAGIC_NUMBER_OFFSET - quotient for a quotient that | 0 has made
\* negative: the difference is a whole number, and one above Int32Max is
\* written Wide(1, lo) = 2^31 + lo
fromOffset(quotient) ==
  IF quotient < MAGIC_NUMBER_OFFSET - Int32Max
  THEN Wide(1, (MAGIC_NUMBER_OFFSET - Int32Max) - quotient - 1)
  ELSE MAGIC_NUMBER_OFFSET - quotient

(* msToExpirationTime(ms) *)
msToExpirationTime(ms) ==
  fromOffset(TruncDivWide(ms, UNIT_SIZE))

\* the middle of the unit instead of its start
expirationTimeToMs_Middle(expirationTime) ==
  (MAGIC_NUMBER_OFFSET - expirationTime) * UNIT_SIZE + 5

(* expirationTimeToMs(expirationTime) *)
expirationTimeToMs(expirationTime) ==
  (MAGIC_NUMBER_OFFSET - expirationTime) * UNIT_SIZE

(* ceiling(num, precision) *)
ceiling(num, precision) ==
  (TruncDiv(num, precision) + 1) * precision

\* a JavaScript number that is whole, or has tenths (0 < tenths < 10)
Number(whole, tenths) ==
  IF tenths = 0 THEN whole ELSE [whole |-> whole, tenths |-> tenths]

\* expirationInMs / UNIT_SIZE and bucketSizeMs / UNIT_SIZE are not
\* truncated and may have a fraction.  ceiling(k * num, k * precision) is
\* k * ceiling(num, precision), so ceiling is called with both arguments
\* times UNIT_SIZE, which are whole, and its result c is brought back to
\* units: MAGIC_NUMBER_OFFSET - c / UNIT_SIZE.  (The quotients of the code
\* are doubles: they are exact, as here, when bucketSizeMs is a multiple
\* of 5.)
(* computeExpirationBucket(currentTime, expirationInMs, bucketSizeMs) *)
computeExpirationBucket(currentTime, expirationInMs, bucketSizeMs) ==
  LET c == ceiling((MAGIC_NUMBER_OFFSET - currentTime) * UNIT_SIZE
                     + expirationInMs,
                   bucketSizeMs)
  IN IF c % UNIT_SIZE = 0
     THEN Number(MAGIC_NUMBER_OFFSET - (c \div UNIT_SIZE), 0)
     ELSE Number(MAGIC_NUMBER_OFFSET - (c \div UNIT_SIZE) - 1,
                 UNIT_SIZE - (c % UNIT_SIZE))

LOW_PRIORITY_EXPIRATION == 5000
LOW_PRIORITY_BATCH_SIZE == 250

(* computeAsyncExpiration(currentTime) *)
computeAsyncExpiration(currentTime) ==
  computeExpirationBucket(currentTime, LOW_PRIORITY_EXPIRATION,
                          LOW_PRIORITY_BATCH_SIZE)

\* __DEV__ is fixed when the bundle is built
HIGH_PRIORITY_EXPIRATION(DEV) == IF DEV THEN 500 ELSE 150
HIGH_PRIORITY_BATCH_SIZE == 100

(* computeInteractiveExpiration(currentTime) *)
computeInteractiveExpiration(DEV, currentTime) ==
  computeExpirationBucket(currentTime, HIGH_PRIORITY_EXPIRATION(DEV),
                          HIGH_PRIORITY_BATCH_SIZE)

(* computeSuspenseExpiration(currentTime, timeoutMs) *)
computeSuspenseExpiration(currentTime, timeoutMs) ==
  computeExpirationBucket(currentTime, timeoutMs, LOW_PRIORITY_BATCH_SIZE)

\* an expiration time a whole window ahead counted as interactive no more
inferPriorityFromExpirationTime_NoBatch(DEV, currentTime, expirationTime) ==
  IF expirationTime = Sync THEN ImmediatePriority
  ELSE IF expirationTime = Never \/ expirationTime = Idle THEN IdlePriority
  ELSE LET msUntil == expirationTimeToMs(expirationTime)
                        - expirationTimeToMs(currentTime)
       IN IF msUntil <= 0 THEN ImmediatePriority
          ELSE IF msUntil <= HIGH_PRIORITY_EXPIRATION(DEV)
               THEN UserBlockingPriority
          ELSE IF msUntil <= LOW_PRIORITY_EXPIRATION
                               + LOW_PRIORITY_BATCH_SIZE
               THEN NormalPriority
          ELSE IdlePriority

(* inferPriorityFromExpirationTime(currentTime, expirationTime) *)
inferPriorityFromExpirationTime(DEV, currentTime, expirationTime) ==
  IF expirationTime = Sync THEN ImmediatePriority
  ELSE IF expirationTime = Never \/ expirationTime = Idle THEN IdlePriority
  ELSE LET msUntil == expirationTimeToMs(expirationTime)
                        - expirationTimeToMs(currentTime)
       IN IF msUntil <= 0 THEN ImmediatePriority
          ELSE IF msUntil <= HIGH_PRIORITY_EXPIRATION(DEV)
                               + HIGH_PRIORITY_BATCH_SIZE
               THEN UserBlockingPriority
          ELSE IF msUntil <= LOW_PRIORITY_EXPIRATION
                               + LOW_PRIORITY_BATCH_SIZE
               THEN NormalPriority
          ELSE IdlePriority

NoCall ==
  [op |-> "none", DEV |-> FALSE, in1 |-> 0, in2 |-> 0, out1 |-> 0,
   out2 |-> 0]

----------------------------------------------------------------------------
(* ReactFiberRoot.js: the times of a root *)

(* FiberRootNode(containerInfo, tag, hydrate): the fields that hold times *)
FiberRootNode ==
  [firstPendingTime |-> NoWork,
   firstSuspendedTime |-> NoWork,
   lastSuspendedTime |-> NoWork,
   nextKnownPendingLevel |-> NoWork,
   lastPingedTime |-> NoWork,
   lastExpiredTime |-> NoWork]

(* isRootSuspendedAtTime(root, expirationTime) *)
isRootSuspendedAtTime(r, expirationTime) ==
  /\ r.firstSuspendedTime # NoWork
  /\ r.firstSuspendedTime >= expirationTime
  /\ r.lastSuspendedTime <= expirationTime

\* a root whose lastSuspendedTime is not set by the first suspension
markRootSuspendedAtTime_LastKept(r, expirationTime) ==
  LET r1 == IF r.firstSuspendedTime < expirationTime
            THEN [r EXCEPT !.firstSuspendedTime = expirationTime] ELSE r
      r2 == IF r.lastSuspendedTime > expirationTime
            THEN [r1 EXCEPT !.lastSuspendedTime = expirationTime] ELSE r1
      r3 == IF expirationTime <= r2.lastPingedTime
            THEN [r2 EXCEPT !.lastPingedTime = NoWork] ELSE r2
  IN IF expirationTime <= r3.lastExpiredTime
     THEN [r3 EXCEPT !.lastExpiredTime = NoWork] ELSE r3

\* a suspension that stores its time in firstSuspendedTime whatever it held
markRootSuspendedAtTime_FirstReplaced(r, expirationTime) ==
  LET r1 == IF r.firstSuspendedTime # expirationTime
            THEN [r EXCEPT !.firstSuspendedTime = expirationTime] ELSE r
      r2 == IF \/ r.lastSuspendedTime > expirationTime
               \/ r.firstSuspendedTime = NoWork
            THEN [r1 EXCEPT !.lastSuspendedTime = expirationTime] ELSE r1
      r3 == IF expirationTime <= r2.lastPingedTime
            THEN [r2 EXCEPT !.lastPingedTime = NoWork] ELSE r2
  IN IF expirationTime <= r3.lastExpiredTime
     THEN [r3 EXCEPT !.lastExpiredTime = NoWork] ELSE r3

\* a suspension that keeps a marker of its own level
markRootSuspendedAtTime_EqualKept(r, expirationTime) ==
  LET r1 == IF r.firstSuspendedTime < expirationTime
            THEN [r EXCEPT !.firstSuspendedTime = expirationTime] ELSE r
      r2 == IF \/ r.lastSuspendedTime > expirationTime
               \/ r.firstSuspendedTime = NoWork
            THEN [r1 EXCEPT !.lastSuspendedTime = expirationTime] ELSE r1
      r3 == IF expirationTime < r2.lastPingedTime
            THEN [r2 EXCEPT !.lastPingedTime = NoWork] ELSE r2
  IN IF expirationTime <= r3.lastExpiredTime
     THEN [r3 EXCEPT !.lastExpiredTime = NoWork] ELSE r3

(* markRootSuspendedAtTime(root, expirationTime) *)
markRootSuspendedAtTime(r, expirationTime) ==
  LET r1 == IF r.firstSuspendedTime < expirationTime
            THEN [r EXCEPT !.firstSuspendedTime = expirationTime] ELSE r
      r2 == IF \/ r.lastSuspendedTime > expirationTime
               \/ r.firstSuspendedTime = NoWork
            THEN [r1 EXCEPT !.lastSuspendedTime = expirationTime] ELSE r1
      r3 == IF expirationTime <= r2.lastPingedTime
            THEN [r2 EXCEPT !.lastPingedTime = NoWork] ELSE r2
  IN IF expirationTime <= r3.lastExpiredTime
     THEN [r3 EXCEPT !.lastExpiredTime = NoWork] ELSE r3

\* an update that leaves its own level suspended
markRootUpdatedAtTime_OwnLevelKept(r, expirationTime) ==
  LET r1 == IF expirationTime > r.firstPendingTime
            THEN [r EXCEPT !.firstPendingTime = expirationTime] ELSE r
      r2 == IF expirationTime >= r1.firstSuspendedTime
            THEN [r1 EXCEPT !.firstSuspendedTime = NoWork,
                            !.lastSuspendedTime = NoWork,
                            !.nextKnownPendingLevel = NoWork]
            ELSE IF expirationTime >= r1.lastSuspendedTime
                 THEN [r1 EXCEPT !.lastSuspendedTime = expirationTime]
                 ELSE r1
  IN IF r.firstSuspendedTime # NoWork
     THEN IF expirationTime > r2.nextKnownPendingLevel
          THEN [r2 EXCEPT !.nextKnownPendingLevel = expirationTime] ELSE r2
     ELSE r1

\* an update above the range that leaves lastSuspendedTime
markRootUpdatedAtTime_LastKept(r, expirationTime) ==
  LET r1 == IF expirationTime > r.firstPendingTime
            THEN [r EXCEPT !.firstPendingTime = expirationTime] ELSE r
      r2 == IF expirationTime >= r1.firstSuspendedTime
            THEN [r1 EXCEPT !.firstSuspendedTime = NoWork,
                            !.nextKnownPendingLevel = NoWork]
            ELSE IF expirationTime >= r1.lastSuspendedTime
                 THEN [r1 EXCEPT !.lastSuspendedTime = expirationTime + 1]
                 ELSE r1
  IN IF r.firstSuspendedTime # NoWork
     THEN IF expirationTime > r2.nextKnownPendingLevel
          THEN [r2 EXCEPT !.nextKnownPendingLevel = expirationTime] ELSE r2
     ELSE r1

\* an update that stores its time in firstPendingTime whatever it held
markRootUpdatedAtTime_PendingReplaced(r, expirationTime) ==
  LET r1 == IF expirationTime # r.firstPendingTime
            THEN [r EXCEPT !.firstPendingTime = expirationTime] ELSE r
      r2 == IF expirationTime >= r1.firstSuspendedTime
            THEN [r1 EXCEPT !.firstSuspendedTime = NoWork,
                            !.lastSuspendedTime = NoWork,
                            !.nextKnownPendingLevel = NoWork]
            ELSE IF expirationTime >= r1.lastSuspendedTime
                 THEN [r1 EXCEPT !.lastSuspendedTime = expirationTime + 1]
                 ELSE r1
  IN IF r.firstSuspendedTime # NoWork
     THEN IF expirationTime > r2.nextKnownPendingLevel
          THEN [r2 EXCEPT !.nextKnownPendingLevel = expirationTime] ELSE r2
     ELSE r1

(* markRootUpdatedAtTime(root, expirationTime) *)
markRootUpdatedAtTime(r, expirationTime) ==
  LET r1 == IF expirationTime > r.firstPendingTime
            THEN [r EXCEPT !.firstPendingTime = expirationTime] ELSE r
      r2 == IF expirationTime >= r1.firstSuspendedTime
            THEN [r1 EXCEPT !.firstSuspendedTime = NoWork,
                            !.lastSuspendedTime = NoWork,
                            !.nextKnownPendingLevel = NoWork]
            ELSE IF expirationTime >= r1.lastSuspendedTime
                 THEN [r1 EXCEPT !.lastSuspendedTime = expirationTime + 1]
                 ELSE r1
  IN IF r.firstSuspendedTime # NoWork
     THEN IF expirationTime > r2.nextKnownPendingLevel
          THEN [r2 EXCEPT !.nextKnownPendingLevel = expirationTime] ELSE r2
     ELSE r1

\* a commit that leaves the finished level suspended
markRootFinishedAtTime_FinishedKept(r, finishedExpirationTime, remainingExpirationTime) ==
  LET r1 == [r EXCEPT !.firstPendingTime = remainingExpirationTime]
      r2 == IF finishedExpirationTime <= r1.lastSuspendedTime
            THEN [r1 EXCEPT !.firstSuspendedTime = NoWork,
                            !.lastSuspendedTime = NoWork,
                            !.nextKnownPendingLevel = NoWork]
            ELSE IF finishedExpirationTime <= r1.firstSuspendedTime
                 THEN [r1 EXCEPT !.firstSuspendedTime =
                                    finishedExpirationTime]
                 ELSE r1
      r3 == IF finishedExpirationTime <= r2.lastPingedTime
            THEN [r2 EXCEPT !.lastPingedTime = NoWork] ELSE r2
  IN IF finishedExpirationTime <= r3.lastExpiredTime
     THEN [r3 EXCEPT !.lastExpiredTime = NoWork] ELSE r3

(* markRootFinishedAtTime(root, finishedExpirationTime,
                          remainingExpirationTime) *)
markRootFinishedAtTime(r, finishedExpirationTime, remainingExpirationTime) ==
  LET r1 == [r EXCEPT !.firstPendingTime = remainingExpirationTime]
      r2 == IF finishedExpirationTime <= r1.lastSuspendedTime
            THEN [r1 EXCEPT !.firstSuspendedTime = NoWork,
                            !.lastSuspendedTime = NoWork,
                            !.nextKnownPendingLevel = NoWork]
            ELSE IF finishedExpirationTime <= r1.firstSuspendedTime
                 THEN [r1 EXCEPT !.firstSuspendedTime =
                                    finishedExpirationTime - 1]
                 ELSE r1
      r3 == IF finishedExpirationTime <= r2.lastPingedTime
            THEN [r2 EXCEPT !.lastPingedTime = NoWork] ELSE r2
  IN IF finishedExpirationTime <= r3.lastExpiredTime
     THEN [r3 EXCEPT !.lastExpiredTime = NoWork] ELSE r3

\* an expiry that replaces the one the root holds
markRootExpiredAtTime_Latest(r, expirationTime) ==
  IF r.lastExpiredTime = NoWork \/ r.lastExpiredTime # expirationTime
  THEN [r EXCEPT !.lastExpiredTime = expirationTime]
  ELSE r

(* markRootExpiredAtTime(root, expirationTime) *)
markRootExpiredAtTime(r, expirationTime) ==
  IF r.lastExpiredTime = NoWork \/ r.lastExpiredTime > expirationTime
  THEN [r EXCEPT !.lastExpiredTime = expirationTime]
  ELSE r

NoMark == [op |-> "none", expirationTime |-> NoWork, before |-> FiberRootNode]

\* ReactFiberWorkLoop.js is not among the sources: of pingSuspendedRoot the
\* model keeps its store to root.lastPingedTime
pingSuspendedRoot(r, suspendedTime) ==
  [r EXCEPT !.lastPingedTime = suspendedTime]

\* The log of the times marked is kept in the behaviours that start with
\* a log: of the times that decide firstPendingTime ("pending"), or of the
\* times that decide lastExpiredTime ("expired").
NoSince ==
  [kept |-> "none", remaining |-> NoWork, updated |-> {},
   tracked |-> NoWork, expired |-> {}]

PendingLog == [NoSince EXCEPT !.kept = "pending"]

ExpiredLog == [NoSince EXCEPT !.kept = "expired"]

\* the log after a call: firstPendingTime was last stored whole by
\* markRootFinishedAtTime (remaining) and raised since by the updates
\* (updated); lastExpiredTime was last cleared or kept (tracked) by
\* markRootSuspendedAtTime or markRootFinishedAtTime and marked since
\* (expired)
sinceSuspended(h, r) ==
  IF h.kept = "expired"
  THEN [h EXCEPT !.tracked = r.lastExpiredTime, !.expired = {}]
  ELSE h

sinceUpdated(h, expirationTime) ==
  IF h.kept = "pending"
  THEN [h EXCEPT !.updated = @ \cup {expirationTime}]
  ELSE h

sinceFinished(h, r, remainingExpirationTime) ==
  CASE h.kept = "pending" ->
         [h EXCEPT !.remaining = remainingExpirationTime, !.updated = {}]
    [] h.kept = "expired" ->
         [h EXCEPT !.tracked = r.lastExpiredTime, !.expired = {}]
    [] OTHER -> h

sinceExpired(h, expirationTime) ==
  IF h.kept = "expired"
  THEN [h EXCEPT !.expired = @ \cup {expirationTime}]
  ELSE h

----------------------------------------------------------------------------
(* The fibers.  createWorkInProgress and the commit of a finished render   *)
(* belong to ReactFiber.js and ReactFiberWorkLoop.js; of them the model    *)
(* keeps what they do to the update queue.                                 *)

InitialState == EmptyObject
Props == EmptyObject
Instance == 0

NoFiber ==
  [updateQueue |-> 0, memoizedState |-> NullValue, expirationTime |-> NoWork,
   effectTag |-> NoEffect, alternate |-> 0, mode |-> NoMode]

\* createWorkInProgress(current): the alternate is created or reused, and
\* its updateQueue is set to current.updateQueue
createWorkInProgress(w, current) ==
  [w EXCEPT !.fibers = [f \in {1, 2} |->
     IF f = current
     THEN [w.fibers[current] EXCEPT !.alternate = 3 - current]
     ELSE [updateQueue |-> w.fibers[current].updateQueue,
           memoizedState |-> w.fibers[current].memoizedState,
           expirationTime |-> w.fibers[current].expirationTime,
           effectTag |-> NoEffect,
           alternate |-> current,
           mode |-> w.fibers[current].mode]]]

\* the inputs of an update: what the caller stores in the object that
\* createUpdate returns
UpdateInputs(id) ==
  { [tag |-> UpdateState, payload |-> FnPayload("append", id),
     callback |-> id, suspenseConfig |-> 1],
    [tag |-> ReplaceState, payload |-> ObjPayload([x |-> id]),
     callback |-> 0, suspenseConfig |-> 0] }

Times == 1 .. MaxTime

\* updates of every tag that setState, replaceState and forceUpdate make,
\* with an object, an updater function or null as payload
TaggedInputs(id) ==
  { [tag |-> UpdateState, payload |-> pl, callback |-> 0,
     suspenseConfig |-> 0] :
      pl \in {ObjPayload([x |-> id]), ObjPayload([y |-> id]),
              FnPayload("append", id), FnPayload("toNull", 0), NullPayload} }
  \cup
  { [tag |-> ReplaceState, payload |-> pl, callback |-> 0,
     suspenseConfig |-> 0] :
      pl \in {ObjPayload([x |-> id]), FnPayload("append", id),
              FnPayload("toNull", 0), NullPayload} }
  \cup
  { [tag |-> ForceUpdate, payload |-> NullPayload, callback |-> 0,
     suspenseConfig |-> 0] }

withFields(w, update, tag, payload, callback) ==
  [w EXCEPT !.heap[update].tag = tag,
            !.heap[update].payload = payload,
            !.heap[update].callback = callback]

NoPass ==
  [fiber |-> 0, queue |-> 0, renderExpirationTime |-> NoWork,
   ran |-> FALSE, diverged |-> FALSE, trace |-> <<>>,
   preBaseState |-> NullValue, preBase |-> <<>>, prePending |-> <<>>,
   newState |-> NullValue, newExpirationTime |-> NoWork]

\* the production bundle, and every bundle
Production ==
  [DEV |-> FALSE, debugRenderPhaseSideEffectsForStrictMode |-> FALSE]
Builds ==
  [DEV : BOOLEAN, debugRenderPhaseSideEffectsForStrictMode : BOOLEAN]

\* a fiber of the given mode whose queue was initialized, in a bundle built
\* with the given flags
InitWorldOf(flags, mode) ==
  LET w0 == [heap |-> <<>>, queues |-> <<>>, shared |-> <<>>,
             arrays |-> <<>>,
             fibers |-> [f \in {1, 2} |->
                           IF f = 1
                           THEN [NoFiber EXCEPT
                                   !.memoizedState = InitialState,
                                   !.mode = mode]
                           ELSE NoFiber],
             hasForceUpdate |-> FALSE, called |-> <<>>,
             unprocessed |-> NoWork, build |-> flags]
  IN initializeUpdateQueue(w0, 1)

InitWorld == InitWorldOf(Production, NoMode)

\* Either the fiber is being mounted (it has no alternate), or it has been
\* mounted and committed and a work-in-progress was created from it.
InitOf(log, flags, mode) ==
  \E mounted \in BOOLEAN :
  \E w \in {IF mounted
            THEN createWorkInProgress(InitWorldOf(flags, mode), 1)
            ELSE InitWorldOf(flags, mode)} :
     /\ build = flags
     /\ heap = w.heap
     /\ queues = w.queues
     /\ shared = w.shared
     /\ arrays = w.arrays
     /\ fibers = w.fibers
     /\ hasForceUpdate = w.hasForceUpdate
     /\ called = w.called
     /\ unprocessed = w.unprocessed
     /\ rootCurrent = (IF mounted THEN 1 ELSE 0)
     /\ wip = (IF mounted THEN 2 ELSE 1)
     /\ enqueued = <<>>
     /\ captured = <<>>
     /\ pass = NoPass
     /\ op = "other"
     /\ budget = [passes |-> 0, renders |-> 0]
     /\ dropped = <<>>
     /\ syncQueue = NullValue
     /\ immediateQueueCallbackNode = 0
     /\ isFlushingSyncQueue = FALSE
     /\ tasks = <<>>
     /\ currentPriorityLevel = Scheduler_NormalPriority
     /\ callbacks = <<>>
     /\ executed = <<>>
     /\ reentered = <<>>
     /\ lastFlush = NoFlush
     /\ ran = NoRun
     /\ asked = NoAsk
     /\ root = FiberRootNode
     /\ marked = NoMark
     /\ since = log
     /\ clock = NoCall

\* The updater functions of all specifications but SpecReentrant have no
\* effect but their result, and a second call of them changes nothing:
\* their fibers are NoMode fibers of the production bundle.
InitWith(log) == InitOf(log, Production, NoMode)

Init == InitWith(NoSince)

\* a fiber of either mode in any bundle
InitAnyBuild ==
  \E flags \in Builds : \E mode \in {NoMode, StrictMode} :
    InitOf(NoSince, flags, mode)

\* the world after an operation
Becomes(w) ==
  /\ heap' = w.heap
  /\ queues' = w.queues
  /\ shared' = w.shared
  /\ arrays' = w.arrays
  /\ fibers' = w.fibers
  /\ hasForceUpdate' = w.hasForceUpdate
  /\ called' = w.called
  /\ unprocessed' = w.unprocessed

Exists(f) == f = 1 \/ fibers[1].alternate = f

\* the updates of a sequence of references, named by the order in which
\* createUpdate made them
IdsOf(us) == [i \in 1 .. Len(us) |-> heap[us[i]].id]

NextId == Len(enqueued) + Len(captured) + Len(dropped) + 1

\* setState and friends: createUpdate, fill in the update, enqueueUpdate,
\* through either fiber of the pair
Enqueue(f, expirationTime, in) ==
  /\ NextId <= MaxUpdates
  /\ Exists(f)
  /\ \E w \in {enqueueUpdate(
                  withFields(createUpdate(World, expirationTime,
                                          in.suspenseConfig, NextId),
                             Len(heap) + 1, in.tag, in.payload, in.callback),
                  f, Len(heap) + 1)} : Becomes(w)
  /\ enqueued' = Append(enqueued, Len(heap) + 1)
  /\ op' = "other"
  /\ pass' = NoPass
  /\ UNCHANGED <<rootCurrent, wip, captured, budget>>
  /\ UNCHANGED restVars

\* setState on a component that was unmounted: the fiber has no update
\* queue
EnqueueUnmounted(f, expirationTime, in) ==
  /\ NextId <= MaxUpdates
  /\ Len(dropped) < MaxDropped
  /\ fibers[f].updateQueue = 0
  /\ \E w \in {enqueueUpdate(
                  withFields(createUpdate(World, expirationTime,
                                          in.suspenseConfig, NextId),
                             Len(heap) + 1, in.tag, in.payload, in.callback),
                  f, Len(heap) + 1)} : Becomes(w)
  /\ dropped' = Append(dropped, Len(heap) + 1)
  /\ op' = "other"
  /\ pass' = NoPass
  /\ UNCHANGED <<rootCurrent, wip, enqueued, captured, budget>>
  /\ UNCHANGED <<build, schedVars, rootVars, clock>>

\* throwException: an update with tag CaptureUpdate goes to the
\* work-in-progress fiber with enqueueCapturedUpdate
EnqueueCaptured(expirationTime, callback) ==
  /\ NextId <= MaxUpdates
  /\ Len(captured) < MaxCaptured
  /\ wip # 0
  /\ \E w \in {enqueueCapturedUpdate(
                  withFields(createUpdate(World, expirationTime, 0, NextId),
                             Len(heap) + 1, CaptureUpdate,
                             FnPayload("append", NextId), callback),
                  wip, Len(heap) + 1)} : Becomes(w)
  /\ captured' =
       Append(captured,
              [update |-> Len(heap) + 1,
               before |->
                 IdsOf(ListOf(heap,
                              queues[fibers[wip].updateQueue].baseQueue))])
  /\ op' = "other"
  /\ pass' = NoPass
  /\ UNCHANGED <<rootCurrent, wip, enqueued, budget>>
  /\ UNCHANGED restVars

CloneUpdateQueue ==
  /\ wip # 0
  /\ fibers[wip].alternate # 0
  /\ \E w \in {cloneUpdateQueue(World, fibers[wip].alternate, wip)} :
       Becomes(w)
  /\ op' = "other"
  /\ pass' = NoPass
  /\ UNCHANGED <<rootCurrent, wip, enqueued, captured, budget>>
  /\ UNCHANGED restVars

\* beginWork on the work-in-progress fiber.  When the fiber has a current
\* alternate the callers (updateClassInstance, updateHostRoot) call
\* cloneUpdateQueue before processUpdateQueue, so the pass never runs on
\* the queue object of the current fiber.
ProcessUpdateQueue(renderExpirationTime) ==
  /\ wip # 0
  /\ budget.passes < MaxPasses
  /\ fibers[wip].alternate # 0 =>
       fibers[wip].updateQueue # fibers[fibers[wip].alternate].updateQueue
  /\ LET queue == fibers[wip].updateQueue
     IN \E L \in {processUpdateQueue(World, wip, Props, Instance,
                                     renderExpirationTime)} :
        /\ Becomes(L.w)
        /\ pass' = [fiber |-> wip,
                    queue |-> queue,
                    renderExpirationTime |-> renderExpirationTime,
                    ran |-> L.baseQueue # 0,
                    diverged |-> L.diverged,
                    trace |-> L.trace,
                    preBaseState |-> queues[queue].baseState,
                    preBase |-> ListOf(heap, queues[queue].baseQueue),
                    prePending |->
                       ListOf(heap, shared[queues[queue].shared].pending),
                    newState |-> L.newState,
                    newExpirationTime |-> L.newExpirationTime]
  /\ op' = "processUpdateQueue"
  /\ budget' = [budget EXCEPT !.passes = @ + 1]
  /\ UNCHANGED <<rootCurrent, wip, enqueued, captured>>
  /\ UNCHANGED restVars

\* the finished work-in-progress becomes current, then its callbacks are
\* committed with commitUpdateQueue
CommitRoot ==
  /\ wip # 0
  /\ \E w \in {commitUpdateQueue(World, wip, fibers[wip].updateQueue,
                                 Instance)} : Becomes(w)
  /\ rootCurrent' = wip
  /\ wip' = 0
  /\ op' = "commitRoot"
  /\ pass' = NoPass
  /\ UNCHANGED <<enqueued, captured, budget>>
  /\ UNCHANGED restVars

\* commitUpdateQueue called once more on the committed fiber
CommitUpdateQueue ==
  /\ wip = 0
  /\ op \in {"commitRoot"}
  /\ \E w \in {commitUpdateQueue(World, rootCurrent,
                                 fibers[rootCurrent].updateQueue,
                                 Instance)} : Becomes(w)
  /\ op' = "commitUpdateQueue"
  /\ pass' = NoPass
  /\ UNCHANGED <<rootCurrent, wip, enqueued, captured, budget>>
  /\ UNCHANGED restVars

\* a render starts, or the render in progress is discarded and restarted
CreateWorkInProgress ==
  /\ rootCurrent # 0
  /\ budget.renders < MaxRenders
  /\ \E w \in {createWorkInProgress(World, rootCurrent)} : Becomes(w)
  /\ wip' = 3 - rootCurrent
  /\ budget' = [budget EXCEPT !.renders = @ + 1]
  /\ op' = "other"
  /\ pass' = NoPass
  /\ UNCHANGED <<rootCurrent, enqueued, captured>>
  /\ UNCHANGED restVars

\* the world of the sync callbacks after an operation
BecomesSched(s) ==
  /\ syncQueue' = s.syncQueue
  /\ immediateQueueCallbackNode' = s.immediateQueueCallbackNode
  /\ isFlushingSyncQueue' = s.isFlushingSyncQueue
  /\ tasks' = s.tasks
  /\ currentPriorityLevel' = s.currentPriorityLevel
  /\ callbacks' = s.callbacks
  /\ executed' = s.executed
  /\ reentered' = s.reentered

\* what a flush finds
FlushFinds(caller, r) ==
  [caller |-> caller,
   entered |-> caller # "work" /\ ~isFlushingSyncQueue /\ ~IsNull(syncQueue),
   queueBefore |-> syncQueue,
   executedBefore |-> Len(executed),
   callbacksBefore |-> Len(callbacks),
   tasksBefore |-> Len(tasks),
   error |-> r.error]

\* the work loop schedules a sync callback
ScheduleSyncCallback(kind) ==
  /\ Len(callbacks) < MaxCallbacks
  /\ \E s \in {scheduleSyncCallback(newCallback(SchedWorld, kind),
                                    Len(callbacks) + 1)} : BecomesSched(s)
  /\ lastFlush' = NoFlush
  /\ asked' = [op |-> "scheduleSyncCallback", argument |-> Len(callbacks) + 1,
               returned |-> fakeCallbackNode, error |-> "none",
               queueBefore |-> syncQueue, tasksBefore |-> tasks]
  /\ UNCHANGED <<ran, queueVars, rootVars, clock>>

\* the work loop flushes the sync callbacks
FlushSyncCallbackQueue ==
  /\ \E r \in {flushSyncCallbackQueue(SchedWorld)} :
       /\ BecomesSched([r.s EXCEPT !.currentPriorityLevel =
                                     currentPriorityLevel])
       /\ lastFlush' = FlushFinds("flushSyncCallbackQueue", r)
  /\ asked' = NoAsk
  /\ UNCHANGED <<ran, queueVars, rootVars, clock>>

\* the scheduler runs a callback it was given and has neither run nor
\* cancelled: the oldest of its priority level, and none while an older
\* callback of a more urgent level waits
SchedulerRunsTask(node) ==
  /\ tasks[node].state = "scheduled"
  /\ \A n \in 1 .. node - 1 :
       tasks[n].state = "scheduled" =>
         tasks[n].priorityLevel > tasks[node].priorityLevel
  /\ \E r \in {runTask(SchedWorld, node)} :
       /\ BecomesSched([r.s EXCEPT !.currentPriorityLevel =
                                     currentPriorityLevel])
       /\ lastFlush' = FlushFinds(tasks[node].callback, r)
  /\ asked' = NoAsk
  /\ UNCHANGED <<ran, queueVars, rootVars, clock>>

ScheduleSyncCallbackAny == \E kind \in CallbackKinds : ScheduleSyncCallback(kind)

SchedulerRunsTaskAny == \E node \in 1 .. Len(tasks) : SchedulerRunsTask(node)

NextSync ==
  \/ ScheduleSyncCallbackAny
  \/ FlushSyncCallbackQueue
  \/ SchedulerRunsTaskAny

SpecSync == Init /\ [][NextSync]_vars

\* the scheduler runs, sooner or later, a callback it was given and that
\* was not cancelled
SpecSyncFair == Init /\ [][NextSync]_vars /\ WF_vars(SchedulerRunsTaskAny)

\* the priority levels passed to runWithPriority: the five of React,
\* NoPriority, and numbers that are no priority level of React
PriorityLevels ==
  {ImmediatePriority, UserBlockingPriority, NormalPriority, LowPriority,
   IdlePriority, NoPriority, 0, Scheduler_ImmediatePriority, 94, 100}

Fns ==
  {Reads, Throws}
    \cup [kind : {"nest"}, inner : PriorityLevels,
          innerKind : {"read", "throw"}]

\* the renderer runs fn at a priority level
RunWithPriority(reactPriorityLevel, fn) ==
  /\ \E r \in {runWithPriority(currentPriorityLevel, reactPriorityLevel,
                               fn)} :
       /\ currentPriorityLevel' = r.level
       /\ ran' = [op |-> "runWithPriority",
                  reactPriorityLevel |-> reactPriorityLevel, fn |-> fn,
                  before |-> currentPriorityLevel, seen |-> r.seen,
                  error |-> r.error, after |-> r.level]
  /\ UNCHANGED <<syncQueue, immediateQueueCallbackNode, isFlushingSyncQueue,
                 tasks, callbacks, executed, reentered, lastFlush, asked>>
  /\ UNCHANGED <<queueVars, rootVars, clock>>

\* the renderer asks for the priority level outside of runWithPriority
GetCurrentPriorityLevel ==
  /\ ran' = [op |-> "getCurrentPriorityLevel", reactPriorityLevel |-> 0,
             fn |-> Reads, before |-> currentPriorityLevel,
             seen |-> <<getCurrentPriorityLevel(currentPriorityLevel).value>>,
             error |-> getCurrentPriorityLevel(currentPriorityLevel).error,
             after |-> currentPriorityLevel]
  /\ UNCHANGED <<syncQueue, immediateQueueCallbackNode, isFlushingSyncQueue,
                 tasks, currentPriorityLevel, callbacks, executed, reentered,
                 lastFlush, asked>>
  /\ UNCHANGED <<queueVars, rootVars, clock>>

RunWithPriorityAny ==
  \E reactPriorityLevel \in PriorityLevels : \E fn \in Fns :
    RunWithPriority(reactPriorityLevel, fn)

NextPriority ==
  \/ RunWithPriorityAny
  \/ GetCurrentPriorityLevel

SpecPriority == Init /\ [][NextPriority]_vars

\* the priority levels at which the work loop schedules work
WorkPriorityLevels == {ImmediatePriority, NormalPriority, NoPriority}

\* the work loop schedules work that is not synchronous; what the callback
\* does when the scheduler calls it is not part of the model
ScheduleCallback(reactPriorityLevel) ==
  /\ Cardinality({n \in 1 .. Len(tasks) : tasks[n].callback = "work"})
       < MaxWork
  /\ \E r \in {scheduleCallback(SchedWorld, reactPriorityLevel, "work")} :
       /\ BecomesSched(r.s)
       /\ asked' = [op |-> "scheduleCallback",
                    argument |-> reactPriorityLevel,
                    returned |-> r.returned, error |-> r.error,
                    queueBefore |-> syncQueue, tasksBefore |-> tasks]
  /\ lastFlush' = NoFlush
  /\ UNCHANGED <<ran, queueVars, rootVars, clock>>

\* the work loop cancels the callback of a root: the node is what
\* scheduleSyncCallback or scheduleCallback returned
CancelCallback(callbackNode) ==
  /\ \E s \in {cancelCallback(SchedWorld, callbackNode)} : BecomesSched(s)
  /\ asked' = [op |-> "cancelCallback", argument |-> callbackNode,
               returned |-> 0, error |-> "none",
               queueBefore |-> syncQueue, tasksBefore |-> tasks]
  /\ lastFlush' = NoFlush
  /\ UNCHANGED <<ran, queueVars, rootVars, clock>>

ScheduleCallbackAny ==
  \E reactPriorityLevel \in WorkPriorityLevels :
    ScheduleCallback(reactPriorityLevel)

\* the nodes the work loop holds
CallbackNodes ==
  {n \in 1 .. Len(tasks) : tasks[n].callback = "work"}
    \cup (IF callbacks # <<>> THEN {fakeCallbackNode} ELSE {})

CancelCallbackAny ==
  \E callbackNode \in CallbackNodes : CancelCallback(callbackNode)

NextCancel ==
  \/ ScheduleSyncCallbackAny
  \/ FlushSyncCallbackQueue
  \/ SchedulerRunsTaskAny
  \/ ScheduleCallbackAny
  \/ CancelCallbackAny

SpecCancel == Init /\ [][NextCancel]_vars

\* the expiration times passed to the markRoot* functions
RootTimes == 1 .. MaxRootTime

MarkRootSuspendedAtTime(expirationTime) ==
  /\ root' = markRootSuspendedAtTime(root, expirationTime)
  /\ marked' = [op |-> "markRootSuspendedAtTime",
                expirationTime |-> expirationTime, before |-> root]
  /\ since' = sinceSuspended(since, markRootSuspendedAtTime(root, expirationTime))
  /\ UNCHANGED <<queueVars, schedVars, clock>>

MarkRootUpdatedAtTime(expirationTime) ==
  /\ root' = markRootUpdatedAtTime(root, expirationTime)
  /\ marked' = [op |-> "markRootUpdatedAtTime",
                expirationTime |-> expirationTime, before |-> root]
  /\ since' = sinceUpdated(since, expirationTime)
  /\ UNCHANGED <<queueVars, schedVars, clock>>

MarkRootFinishedAtTime(finishedExpirationTime, remainingExpirationTime) ==
  /\ root' = markRootFinishedAtTime(root, finishedExpirationTime,
                                    remainingExpirationTime)
  /\ marked' = [op |-> "markRootFinishedAtTime",
                expirationTime |-> finishedExpirationTime, before |-> root]
  /\ since' = sinceFinished(since,
                 markRootFinishedAtTime(root, finishedExpirationTime,
                                        remainingExpirationTime),
                 remainingExpirationTime)
  /\ UNCHANGED <<queueVars, schedVars, clock>>

MarkRootExpiredAtTime(expirationTime) ==
  /\ root' = markRootExpiredAtTime(root, expirationTime)
  /\ marked' = [op |-> "markRootExpiredAtTime",
                expirationTime |-> expirationTime, before |-> root]
  /\ since' = sinceExpired(since, expirationTime)
  /\ UNCHANGED <<queueVars, schedVars, clock>>

MarkRootSuspendedAny == \E t \in RootTimes : MarkRootSuspendedAtTime(t)

MarkRootUpdatedAny == \E t \in RootTimes : MarkRootUpdatedAtTime(t)

\* the work that remains after a commit has a lower expiration time than
\* the work that finished, or there is none
MarkRootFinishedAny ==
  \E t \in RootTimes : \E remaining \in NoWork .. t - 1 :
    MarkRootFinishedAtTime(t, remaining)

MarkRootExpiredAny == \E t \in RootTimes : MarkRootExpiredAtTime(t)

NextRoot ==
  \/ MarkRootSuspendedAny
  \/ MarkRootUpdatedAny
  \/ MarkRootFinishedAny
  \/ MarkRootExpiredAny

SpecRoot == Init /\ [][NextRoot]_vars

\* a suspended component pings the root
PingSuspendedRoot(suspendedTime) ==
  /\ root' = pingSuspendedRoot(root, suspendedTime)
  /\ marked' = [op |-> "pingSuspendedRoot",
                expirationTime |-> suspendedTime, before |-> root]
  /\ UNCHANGED <<since, queueVars, schedVars, clock>>

PingSuspendedRootAny == \E t \in RootTimes : PingSuspendedRoot(t)

NextPinged ==
  \/ MarkRootSuspendedAny
  \/ MarkRootUpdatedAny
  \/ MarkRootFinishedAny
  \/ MarkRootExpiredAny
  \/ PingSuspendedRootAny

SpecPinged == Init /\ [][NextPinged]_vars

\* the markRoot* calls on a new root, with the log of the pending times
InitPending == InitWith(PendingLog)

SpecPending == InitPending /\ [][NextRoot]_vars

\* the markRoot* calls on a new root, with the log of the expired times
InitExpired == InitWith(ExpiredLog)

SpecExpired == InitExpired /\ [][NextRoot]_vars

\* a whole number of ms >= 0 as a time
ToWide(ms) == Wide(0, ms)

\* the last ms in which (ms / UNIT_SIZE) | 0 is below zero:
\* 2^32 * UNIT_SIZE - 1
LastWrapped == Wide(2 * UNIT_SIZE - 1, Int32Max)

\* the times in ms that now() returns: the first ones, the last ones below
\* 2^31, and the last ones that LastWrapped ends
MsTimes ==
  {Wide(0, ms) : ms \in 0 .. MaxMs}
    \cup {Wide(0, Int32Max - late) : late \in 0 .. MaxLate}
    \cup {Wide(LastWrapped.hi, LastWrapped.lo - late) :
             late \in 0 .. MaxLate}

\* the times of the calls of computeExpirationBucket: the first ones, late
\* ones below 2^31, and the last ones that LastWrapped ends
BucketTimes ==
  {Wide(0, ms) : ms \in 0 .. MaxMs}
    \cup {Wide(0, Int32Max - MaxAhead * UNIT_SIZE - late) :
             late \in 0 .. MaxLate}
    \cup {Wide(LastWrapped.hi, LastWrapped.lo - late) :
             late \in 0 .. MaxMs}

\* the expiration times of the first times and of the last ones below 2^31
ExpirationTimes ==
  { MAGIC_NUMBER_OFFSET - units :
      units \in (0 .. MaxMs)
                  \cup {(Int32Max \div UNIT_SIZE) - late :
                          late \in 0 .. MaxLate} }

\* the variables the functions of ReactFiberExpirationTime.js leave alone
notClockVars == <<queueVars, schedVars, rootVars>>

\* each behaviour makes one call
MsToExpirationTime(ms1, ms2) ==
  /\ clock.op = "none"
  /\ clock' = [op |-> "msToExpirationTime", DEV |-> FALSE,
               in1 |-> ms1, in2 |-> ms2,
               out1 |-> msToExpirationTime(ms1),
               out2 |-> msToExpirationTime(ms2)]
  /\ UNCHANGED notClockVars

\* expirationTimeToMs(msToExpirationTime(ms))
MsThereAndBack(ms) ==
  /\ clock.op = "none"
  /\ clock' = [op |-> "expirationTimeToMs(msToExpirationTime)",
               DEV |-> FALSE, in1 |-> ms, in2 |-> ms,
               out1 |-> msToExpirationTime(ms),
               out2 |-> expirationTimeToMs(msToExpirationTime(ms))]
  /\ UNCHANGED notClockVars

\* msToExpirationTime(expirationTimeToMs(expirationTime))
ExpirationTimeThereAndBack(expirationTime) ==
  /\ clock.op = "none"
  /\ clock' = [op |-> "msToExpirationTime(expirationTimeToMs)",
               DEV |-> FALSE, in1 |-> expirationTime,
               in2 |-> expirationTime,
               out1 |-> expirationTimeToMs(expirationTime),
               out2 |-> msToExpirationTime(
                          ToWide(expirationTimeToMs(expirationTime)))]
  /\ UNCHANGED notClockVars

\* two calls, each with the currentTime that msToExpirationTime(now()) gave
ComputeInteractiveExpiration(DEV, ms1, ms2) ==
  /\ clock.op = "none"
  /\ clock' = [op |-> "computeInteractiveExpiration", DEV |-> DEV,
               in1 |-> ms1, in2 |-> ms2,
               out1 |-> computeInteractiveExpiration(
                          DEV, msToExpirationTime(ms1)),
               out2 |-> computeInteractiveExpiration(
                          DEV, msToExpirationTime(ms2))]
  /\ UNCHANGED notClockVars

ComputeAsyncExpiration(ms1, ms2) ==
  /\ clock.op = "none"
  /\ clock' = [op |-> "computeAsyncExpiration", DEV |-> FALSE,
               in1 |-> ms1, in2 |-> ms2,
               out1 |-> computeAsyncExpiration(msToExpirationTime(ms1)),
               out2 |-> computeAsyncExpiration(msToExpirationTime(ms2))]
  /\ UNCHANGED notClockVars

MsToExpirationTimeAny ==
  /\ clock.op = "none"
  /\ \E ms1 \in MsTimes : \E ms2 \in MsTimes : MsToExpirationTime(ms1, ms2)

MsThereAndBackAny ==
  /\ clock.op = "none"
  /\ \E ms \in MsTimes : MsThereAndBack(ms)

ExpirationTimeThereAndBackAny ==
  /\ clock.op = "none"
  /\ \E expirationTime \in ExpirationTimes :
       ExpirationTimeThereAndBack(expirationTime)

ComputeInteractiveExpirationAny ==
  /\ clock.op = "none"
  /\ \E DEV \in BOOLEAN : \E ms1 \in BucketTimes : \E ms2 \in BucketTimes :
       ComputeInteractiveExpiration(DEV, ms1, ms2)

ComputeAsyncExpirationAny ==
  /\ clock.op = "none"
  /\ \E ms1 \in BucketTimes : \E ms2 \in BucketTimes :
       ComputeAsyncExpiration(ms1, ms2)

NextClock ==
  \/ MsToExpirationTimeAny
  \/ MsThereAndBackAny
  \/ ExpirationTimeThereAndBackAny

SpecClock == Init /\ [][NextClock]_vars

NextBucket ==
  \/ ComputeInteractiveExpirationAny
  \/ ComputeAsyncExpirationAny

SpecBucket == Init /\ [][NextBucket]_vars

\* the current times of the calls that look ahead: msToExpirationTime of
\* the first times, of late times below 2^31 and of the last times that
\* LastWrapped ends
CurrentTimes ==
  { MAGIC_NUMBER_OFFSET - units :
      units \in (0 .. MaxLate)
                  \cup {(Int32Max \div UNIT_SIZE) - MaxAhead - MaxLate - late :
                          late \in 0 .. MaxLate} }
    \cup { msToExpirationTime(Wide(LastWrapped.hi,
                                   LastWrapped.lo - late * UNIT_SIZE)) :
             late \in 0 .. MaxLate }

\* the expiration times asked about at currentTime: up to MaxAhead units
\* ahead of it, the two units behind it, and the reserved ones
ExpirationTimesAt(currentTime) ==
  { currentTime - ahead : ahead \in (0 - 2) .. MaxAhead }
    \cup {Sync, Batched, Never, Idle}

\* the timeouts of computeSuspenseExpiration, in ms
Timeouts == {0 - 5, 0, 5, 10, 240, 250, 255, 1000}

\* inferPriorityFromExpirationTime(currentTime, expirationTime)
InferPriorityFromExpirationTime(DEV, currentTime, expirationTime) ==
  /\ clock' = [op |-> "inferPriorityFromExpirationTime", DEV |-> DEV,
               in1 |-> currentTime, in2 |-> expirationTime,
               out1 |-> inferPriorityFromExpirationTime(
                          DEV, currentTime, expirationTime),
               out2 |-> 0]
  /\ UNCHANGED notClockVars

\* computeInteractiveExpiration(currentTime) and the priority inferred for
\* its result; in2 is what computeAsyncExpiration(currentTime) returns
InferInteractive(DEV, currentTime) ==
  /\ clock' = [op |-> "inferPriority(computeInteractiveExpiration)",
               DEV |-> DEV, in1 |-> currentTime,
               in2 |-> computeAsyncExpiration(currentTime),
               out1 |-> computeInteractiveExpiration(DEV, currentTime),
               out2 |-> inferPriorityFromExpirationTime(
                          DEV, currentTime,
                          computeInteractiveExpiration(DEV, currentTime))]
  /\ UNCHANGED notClockVars

\* computeAsyncExpiration(currentTime) and the priority inferred for its
\* result; in2 is what computeInteractiveExpiration(currentTime) returns
InferAsync(DEV, currentTime) ==
  /\ clock' = [op |-> "inferPriority(computeAsyncExpiration)",
               DEV |-> DEV, in1 |-> currentTime,
               in2 |-> computeInteractiveExpiration(DEV, currentTime),
               out1 |-> computeAsyncExpiration(currentTime),
               out2 |-> inferPriorityFromExpirationTime(
                          DEV, currentTime,
                          computeAsyncExpiration(currentTime))]
  /\ UNCHANGED notClockVars

\* computeExpirationBucket as its three callers call it: in2 is
\* expirationInMs and out2 is bucketSizeMs
ComputeExpirationBucket(currentTime, expirationInMs, bucketSizeMs) ==
  /\ clock' = [op |-> "computeExpirationBucket", DEV |-> FALSE,
               in1 |-> currentTime, in2 |-> expirationInMs,
               out1 |-> computeExpirationBucket(currentTime, expirationInMs,
                                                bucketSizeMs),
               out2 |-> bucketSizeMs]
  /\ UNCHANGED notClockVars

ComputeSuspenseExpiration(currentTime, timeoutMs) ==
  /\ clock' = [op |-> "computeExpirationBucket", DEV |-> FALSE,
               in1 |-> currentTime, in2 |-> timeoutMs,
               out1 |-> computeSuspenseExpiration(currentTime, timeoutMs),
               out2 |-> LOW_PRIORITY_BATCH_SIZE]
  /\ UNCHANGED notClockVars

InferPriorityAny ==
  /\ clock.op = "none"
  /\ \E DEV \in BOOLEAN : \E currentTime \in CurrentTimes :
     \E expirationTime \in ExpirationTimesAt(currentTime) :
       InferPriorityFromExpirationTime(DEV, currentTime, expirationTime)

InferInteractiveAny ==
  /\ clock.op = "none"
  /\ \E DEV \in BOOLEAN : \E currentTime \in CurrentTimes :
       InferInteractive(DEV, currentTime)

InferAsyncAny ==
  /\ clock.op = "none"
  /\ \E DEV \in BOOLEAN : \E currentTime \in CurrentTimes :
       InferAsync(DEV, currentTime)

ComputeExpirationBucketAny ==
  /\ clock.op = "none"
  /\ \E currentTime \in CurrentTimes :
       \/ \E DEV \in BOOLEAN :
            ComputeExpirationBucket(currentTime,
                                    HIGH_PRIORITY_EXPIRATION(DEV),
                                    HIGH_PRIORITY_BATCH_SIZE)
       \/ ComputeExpirationBucket(currentTime, LOW_PRIORITY_EXPIRATION,
                                  LOW_PRIORITY_BATCH_SIZE)

ComputeSuspenseExpirationAny ==
  /\ clock.op = "none"
  /\ \E currentTime \in CurrentTimes :
     \E timeoutMs \in Timeouts :
       ComputeSuspenseExpiration(currentTime, timeoutMs)

NextDeadline ==
  \/ InferPriorityAny
  \/ InferInteractiveAny
  \/ InferAsyncAny
  \/ ComputeExpirationBucketAny
  \/ ComputeSuspenseExpirationAny

SpecDeadline == Init /\ [][NextDeadline]_vars

EnqueueAny ==
  \E f \in {1, 2}, t \in Times, in \in UpdateInputs(NextId) :
    Enqueue(f, t, in)

EnqueueTaggedAny ==
  /\ Len(enqueued) < MaxTagged
  /\ \E t \in Times, in \in TaggedInputs(NextId) : Enqueue(1, t, in)

\* setState with an updater function that calls setState itself
EnqueueReentrantAny ==
  /\ Cardinality({k \in 1 .. Len(enqueued) :
                    heap[enqueued[k]].payload.kind = "enqueue"})
       < MaxReentrant
  /\ \E t \in Times, inner \in Times :
       Enqueue(1, t, [tag |-> UpdateState,
                      payload |-> ReentrantPayload(NextId, inner),
                      callback |-> 0, suspenseConfig |-> 0])

\* the class component resets the flag before it processes its queue
ResetHasForceUpdate ==
  /\ op # "resetHasForceUpdateBeforeProcessing"
  /\ \E w \in {resetHasForceUpdateBeforeProcessing(World)} : Becomes(w)
  /\ op' = "resetHasForceUpdateBeforeProcessing"
  /\ pass' = NoPass
  /\ UNCHANGED <<rootCurrent, wip, enqueued, captured, budget>>
  /\ UNCHANGED restVars

EnqueueUnmountedAny ==
  \E f \in {1, 2}, t \in Times, in \in UpdateInputs(NextId) :
    EnqueueUnmounted(f, t, in)

EnqueueCapturedAny ==
  \E t \in Times, cb \in {0, NextId} : EnqueueCaptured(t, cb)

\* a render may be more urgent than every update of the queue
RenderTimes == 1 .. MaxTime + 1

ProcessAny == \E t \in RenderTimes : ProcessUpdateQueue(t)

Next ==
  \/ EnqueueAny
  \/ EnqueueCapturedAny
  \/ CloneUpdateQueue
  \/ ProcessAny
  \/ CommitRoot
  \/ CommitUpdateQueue
  \/ CreateWorkInProgress

Spec == Init /\ [][Next]_vars

NextPair ==
  \/ EnqueueAny
  \/ CloneUpdateQueue
  \/ ProcessAny
  \/ CommitRoot
  \/ CommitUpdateQueue
  \/ CreateWorkInProgress

SpecPair == Init /\ [][NextPair]_vars

\* every pass is followed at once by the commit of its fiber
NextCommit ==
  \/ op # "processUpdateQueue" /\ EnqueueAny
  \/ op # "processUpdateQueue" /\ CloneUpdateQueue
  \/ op # "processUpdateQueue" /\ ProcessAny
  \/ op = "processUpdateQueue" /\ CommitRoot
  \/ op # "processUpdateQueue" /\ CreateWorkInProgress

SpecCommit == Init /\ [][NextCommit]_vars

\* one fiber and its queue: updates are enqueued and passes are run
NextOne ==
  \/ EnqueueAny
  \/ ProcessAny

SpecOne == Init /\ [][NextOne]_vars

\* one fiber whose updater functions may enqueue updates
NextReentrant ==
  \/ EnqueueAny
  \/ EnqueueReentrantAny
  \/ ProcessAny

SpecReentrant == InitAnyBuild /\ [][NextReentrant]_vars

\* one fiber whose queue receives updates of every tag
NextTags ==
  \/ EnqueueTaggedAny
  \/ ProcessAny
  \/ ResetHasForceUpdate

SpecTags == Init /\ [][NextTags]_vars

\* one mounted fiber and one fiber that has no queue
NextUnmounted ==
  \/ EnqueueAny
  \/ EnqueueUnmountedAny
  \/ ProcessAny

SpecUnmounted == Init /\ [][NextUnmounted]_vars

----------------------------------------------------------------------------
(* Definitions used by the properties *)

\* the state after applying the updates us[i..], in order, to state s
RECURSIVE applyAll(_, _, _)
applyAll(s, us, i) ==
  IF i > Len(us) THEN s
  ELSE applyAll(getStateFromUpdate(World, 1, 0, us[i], s, Props,
                                   Instance).state,
                us, i + 1)

\* every enqueued update applied once, in enqueue order
ExpectedState == applyAll(InitialState, enqueued, 1)

AfterPass == op = "processUpdateQueue"

\* the last operation was a pass whose threshold is <= the expiration time
\* of every enqueued update
AfterFinalPass ==
  /\ AfterPass
  /\ \A i \in 1 .. Len(enqueued) :
       heap[enqueued[i]].expirationTime >= pass.renderExpirationTime

PassQueue == queues[pass.queue]

\* C1: on one queue, after any enqueues and passes, a pass whose threshold
\* is <= every update's expiration time leaves memoizedState and baseState
\* equal to all updates applied once in enqueue order, and baseQueue null.
C1_OrderIndependence ==
  AfterFinalPass =>
    /\ fibers[pass.fiber].memoizedState = ExpectedState
    /\ PassQueue.baseState = ExpectedState
    /\ PassQueue.baseQueue = 0

\* a final pass after an earlier partial pass: it applies a rebased update
\* (a clone stamped Sync) after an update that had been skipped
C1_Witness ==
  /\ AfterFinalPass
  /\ Len(enqueued) >= 2
  /\ budget.passes >= 2
  /\ \E i \in 1 .. Len(pass.trace) :
       heap[pass.trace[i].update].expirationTime = Sync
  /\ fibers[pass.fiber].memoizedState = ExpectedState

\* C2: with a current / work-in-progress pair, under any interleaving of
\* enqueueUpdate, cloneUpdateQueue, processUpdateQueue, discarding and
\* committing the work-in-progress, a final pass yields every enqueued
\* update applied exactly once in enqueue order.
C2_NoUpdateLostOrRepeated ==
  AfterFinalPass => fibers[pass.fiber].memoizedState = ExpectedState

----------------------------------------------------------------------------
(* One pass, described from the queue as it was when the pass began *)

\* the updates the pass walks: the base queue it found, then the pending
\* updates it found
Visited == pass.preBase \o pass.prePending

\* the update has less priority than the pass renders at
Insufficient(u) == heap[u].expirationTime < pass.renderExpirationTime

\* the positions of Visited the pass has to skip
Skipped == {i \in 1 .. Len(Visited) : Insufficient(Visited[i])}

\* the position of the first skipped update, 0 when none is skipped
FirstSkip ==
  IF Skipped = {} THEN 0
  ELSE CHOOSE i \in Skipped : \A j \in Skipped : i <= j

\* the base queue the pass leaves
Retained == ListOf(heap, PassQueue.baseQueue)

\* the updates us[i..] of sufficient priority applied in order to state s
RECURSIVE applySufficient(_, _, _)
applySufficient(s, us, i) ==
  IF i > Len(us) THEN s
  ELSE applySufficient(IF Insufficient(us[i]) THEN s
                       ELSE getStateFromUpdate(World, 1, 0, us[i], s, Props,
                                               Instance).state,
                       us, i + 1)

SameUpdate(a, b) ==
  /\ a.expirationTime = b.expirationTime
  /\ a.suspenseConfig = b.suspenseConfig
  /\ a.tag = b.tag
  /\ a.payload = b.payload
  /\ a.callback = b.callback

\* C3: in every pass an update below the render threshold is not applied
\* and is kept in the resulting baseQueue as a clone with the same
\* expirationTime, suspenseConfig, tag, payload and callback; every update
\* from the first skipped one on stays in the queue, so an update leaves
\* only when it is applied with no skipped update before it.
C3_SkippedRetained ==
  AfterPass /\ pass.ran =>
    /\ fibers[pass.fiber].memoizedState =
         applySufficient(pass.preBaseState, Visited, 1)
    /\ Len(Retained) =
         IF FirstSkip = 0 THEN 0 ELSE Len(Visited) - FirstSkip + 1
    /\ \A i \in Skipped :
         /\ i - FirstSkip + 1 \in 1 .. Len(Retained)
         /\ SameUpdate(heap[Retained[i - FirstSkip + 1]], heap[Visited[i]])
    /\ \A i \in 1 .. Len(Visited) :
         FirstSkip # 0 /\ i >= FirstSkip =>
           \E k \in 1 .. Len(Retained) :
             heap[Retained[k]].id = heap[Visited[i]].id

\* a pass skipped an update that has a callback and a suspenseConfig, and
\* applied a later one
C3_Witness ==
  /\ AfterPass
  /\ \E i \in Skipped :
       /\ heap[Visited[i]].callback # 0
       /\ heap[Visited[i]].suspenseConfig # 0
       /\ \E j \in 1 .. Len(Visited) : j > i /\ j \notin Skipped
  /\ Len(Retained) >= 2

\* the update, or the update it is a clone of, was enqueued with
\* enqueueUpdate
ByEnqueueUpdate(u) ==
  \E k \in 1 .. Len(enqueued) : heap[enqueued[k]].id = heap[u].id

\* C4: every pass visits the updates in the order they were enqueued,
\* whether with enqueueUpdate or with enqueueCapturedUpdate (ids are given
\* in the order of the createUpdate calls, and a clone keeps the id): the
\* updates of the baseQueue first, then those spliced in from
\* shared.pending; the threshold decides only which of them are applied;
\* the baseQueue the pass leaves lists the retained updates in the same
\* relative order.
C4_VisitedInEnqueueOrder ==
  AfterPass /\ pass.ran =>
    /\ [i \in 1 .. Len(pass.trace) |-> pass.trace[i].update] = Visited
    /\ \A i \in 1 .. Len(pass.trace) :
         pass.trace[i].applied <=> i \notin Skipped
    /\ \A i, j \in 1 .. Len(Visited) :
         i < j => heap[Visited[i]].id < heap[Visited[j]].id
    /\ FirstSkip # 0 =>
         IdsOf(Retained) = IdsOf(SubSeq(Visited, FirstSkip, Len(Visited)))

\* C5: after a pass that skipped an update, baseState is the old baseState
\* with exactly the updates before the first skipped one applied, and
\* memoizedState has in addition every later update of sufficient priority;
\* after a pass that skipped none, baseState = memoizedState and baseQueue
\* is null.
C5_BaseStateBeforeFirstSkip ==
  AfterPass /\ pass.ran =>
    IF FirstSkip # 0
    THEN /\ PassQueue.baseState =
              applyAll(pass.preBaseState,
                       SubSeq(Visited, 1, FirstSkip - 1), 1)
         /\ fibers[pass.fiber].memoizedState =
              applySufficient(PassQueue.baseState,
                              SubSeq(Visited, FirstSkip, Len(Visited)), 1)
    ELSE /\ PassQueue.baseState = fibers[pass.fiber].memoizedState
         /\ PassQueue.baseQueue = 0

\* a pass applied an update, skipped the next and applied one after it
C5_Witness ==
  /\ AfterPass
  /\ FirstSkip > 1
  /\ \E j \in 1 .. Len(Visited) : j > FirstSkip /\ j \notin Skipped
  /\ PassQueue.baseState # pass.preBaseState
  /\ PassQueue.baseState # fibers[pass.fiber].memoizedState

\* the greatest expiration time among the skipped updates, NoWork if none
MaxSkipped ==
  IF Skipped = {} THEN NoWork
  ELSE CHOOSE t \in {heap[Visited[i]].expirationTime : i \in Skipped} :
         \A i \in Skipped : heap[Visited[i]].expirationTime <= t

\* C6: after a pass over a non-empty queue, workInProgress.expirationTime
\* and the time given to markUnprocessedUpdateTime are the maximum
\* expiration time of the skipped updates; that is NoWork exactly when no
\* update was skipped, which is exactly when the new baseQueue is null.
C6_RemainingExpirationTime ==
  AfterPass /\ pass.ran =>
    /\ fibers[pass.fiber].expirationTime = MaxSkipped
    /\ unprocessed = MaxSkipped
    /\ fibers[pass.fiber].expirationTime = NoWork <=> Skipped = {}
    /\ Skipped = {} <=> PassQueue.baseQueue = 0

\* a pass skipped two updates, the more urgent of them first
C6_Witness ==
  /\ AfterPass
  /\ \E i, j \in Skipped :
       /\ i < j
       /\ heap[Visited[i]].expirationTime > heap[Visited[j]].expirationTime
  /\ fibers[pass.fiber].expirationTime = MaxTime

----------------------------------------------------------------------------
(* Commits *)

EffectsOf(q) ==
  IF queues[q].effects = 0 THEN <<>> ELSE arrays[queues[q].effects]

\* the callbacks of the updates in a list of effects
CallbacksOf(effects) == [i \in 1 .. Len(effects) |-> heap[effects[i]].callback]

\* the callbacks invoked by the step
NewCalls == SubSeq(called', Len(called) + 1, Len(called'))

\* the updates with a callback that the pass applied, in the order it
\* applied them
Recorded ==
  SelectSeq([i \in 1 .. Len(pass.trace) |-> pass.trace[i].update],
            LAMBDA u : ~Insufficient(u) /\ heap[u].callback # 0)

IsSuffix(t, u) ==
  /\ Len(t) <= Len(u)
  /\ SubSeq(u, Len(u) - Len(t) + 1, Len(u)) = t

\* C7: commitUpdateQueue invokes the callback of every update in
\* finishedQueue.effects once, in the order of the list, which ends with
\* the updates of the last pass in the order that pass applied them, and
\* sets effects to null; a second commitUpdateQueue with no pass in between
\* invokes no callback.
C7_CommitInvokesEffectsInOrder ==
  [][/\ op' = "commitRoot" /\ wip # 0 =>
          /\ called' = called \o CallbacksOf(EffectsOf(fibers[wip].updateQueue))
          /\ \A i \in 1 .. Len(NewCalls) : NewCalls[i] # 0
          /\ op = "processUpdateQueue" =>
               IsSuffix(CallbacksOf(Recorded), NewCalls)
          /\ queues'[fibers[wip].updateQueue].effects = 0
     /\ op' = "commitUpdateQueue" /\ rootCurrent # 0 =>
          /\ called' = called
          /\ queues'[fibers[rootCurrent].updateQueue].effects = 0]_vars

\* one commit invoked two callbacks and the commit after it none
C7_Witness ==
  /\ op = "commitUpdateQueue"
  /\ budget.renders = 0
  /\ Len(called) >= 2
  /\ called[1] < called[2]

\* C8: over passes each followed at once by a commit, no callback is
\* invoked twice, also not the callback of an update that was applied after
\* a skipped update, kept in the baseQueue as a clone stamped Sync, and
\* applied again from the clone in a later pass.
C8_CallbackInvokedOnce ==
  \A i, j \in 1 .. Len(called) : i # j => called[i] # called[j]

\* the updates reachable from the queue of the current fiber
CurrentLists ==
  IF rootCurrent = 0 THEN <<>>
  ELSE <<ListOf(heap, queues[fibers[rootCurrent].updateQueue].baseQueue),
         ListOf(heap,
                shared[queues[fibers[rootCurrent].updateQueue].shared]
                  .pending)>>

\* C9: a pass processes an update enqueued with enqueueCapturedUpdate after
\* every update that was in the work-in-progress baseQueue when it was
\* enqueued.
C9_CapturedProcessedLast ==
  AfterPass =>
    \A c \in 1 .. Len(captured) :
      \A i, j \in 1 .. Len(pass.trace) :
        /\ heap[pass.trace[j].update].id = heap[captured[c].update].id
        /\ \E k \in 1 .. Len(captured[c].before) :
             captured[c].before[k] = heap[pass.trace[i].update].id
        => i < j

\* C10: enqueueCapturedUpdate on a work-in-progress fiber that has a
\* current alternate leaves the sequences of updates reachable from the
\* current queue's baseQueue and shared.pending as they were.
C10_CaptureLeavesCurrentQueue ==
  [][Len(captured') > Len(captured) /\ rootCurrent # 0
       => CurrentLists' = CurrentLists]_vars

----------------------------------------------------------------------------
(* The pending list *)

\* the shared record of the queue of the fiber pair
Pending == shared[queues[fibers[1].updateQueue].shared].pending

\* the pending list is the circular list of the last k enqueued updates
PendingIsLast(k) ==
  IF k = 0 THEN Pending = 0
  ELSE /\ Pending = enqueued[Len(enqueued)]
       /\ heap[Pending].next = enqueued[Len(enqueued) - k + 1]
       /\ \A i \in Len(enqueued) - k + 1 .. Len(enqueued) - 1 :
            heap[enqueued[i]].next = enqueued[i + 1]

\* C11: as long as no pass has run, shared.pending is the update enqueued
\* last, shared.pending.next the one enqueued first, and next leads from
\* each enqueued update to the one enqueued after it; after passes the same
\* holds of the updates enqueued since the pending list was last spliced.
C11_PendingIsCircularList ==
  /\ \E k \in 0 .. Len(enqueued) : PendingIsLast(k)
  /\ budget.passes = 0 => PendingIsLast(Len(enqueued))

\* three updates were enqueued and none processed
C11_Witness ==
  /\ budget.passes = 0
  /\ Len(enqueued) = 3
  /\ heap[Pending].next = enqueued[1]
  /\ heap[enqueued[1]].next = enqueued[2]

\* C12: enqueueUpdate for a fiber whose updateQueue is null changes
\* nothing: the fibers, the queues and every update, the one passed
\* included, are as they were before the call.
C12_EnqueueOnUnmountedIsNoOp ==
  [][Len(dropped') > Len(dropped) =>
       /\ fibers' = fibers
       /\ queues' = queues
       /\ shared' = shared
       /\ arrays' = arrays
       /\ hasForceUpdate' = hasForceUpdate
       /\ SubSeq(heap', 1, Len(heap)) = heap
       /\ Len(heap') = Len(heap) + 1
       /\ heap'[Len(heap')].next = Len(heap')
       /\ heap'[Len(heap')].expirationTime \in Times]_vars

\* an update was passed to enqueueUpdate for the fiber without a queue,
\* after another update was enqueued on the mounted fiber
C12_Witness ==
  /\ Len(dropped) = 1
  /\ Len(enqueued) >= 1
  /\ enqueued[1] < dropped[1]
  /\ fibers[2].updateQueue = 0

----------------------------------------------------------------------------
(* What applying one update does to the state *)

FieldsOf(v) == IF IsNull(v) THEN {} ELSE DOMAIN v

\* the value of the payload of update u when it is applied to state prev
PayloadValue(u, prev) ==
  IF IsFunction(heap[u].payload) THEN Call(heap[u].payload, prev, Props)
  ELSE Literal(heap[u].payload)

\* the entries of the trace of the pass chain the running state: each
\* update found the state the one before it left, the first found the
\* baseState of the queue, the last left memoizedState
RunningState ==
  /\ \A i \in 1 .. Len(pass.trace) :
       pass.trace[i].prev =
         IF i = 1 THEN pass.preBaseState ELSE pass.trace[i - 1].state
  /\ pass.trace # <<>> =>
       fibers[pass.fiber].memoizedState = pass.trace[Len(pass.trace)].state

\* the positions of the trace at which an update of the tag was applied
AppliedWithTag(tag) ==
  {i \in 1 .. Len(pass.trace) :
     pass.trace[i].applied /\ heap[pass.trace[i].update].tag = tag}

\* C13: an applied UpdateState update whose payload, or the result of its
\* function payload called with the running state, is null leaves the
\* state as it was; otherwise every field of the partial state is in the
\* new state with the partial state's value and every other field of the
\* previous state is kept.  The previous state is the running state of the
\* pass.
C13_UpdateStateMerges ==
  AfterPass =>
    /\ RunningState
    /\ \A i \in AppliedWithTag(UpdateState) :
         LET e == pass.trace[i]
             partial == PayloadValue(e.update, e.prev)
         IN IF IsNull(partial) THEN e.state = e.prev
            ELSE /\ ~IsNull(e.state)
                 /\ DOMAIN e.state = FieldsOf(e.prev) \cup DOMAIN partial
                 /\ \A k \in DOMAIN partial : e.state[k] = partial[k]
                 /\ \A k \in FieldsOf(e.prev) \ DOMAIN partial :
                      e.state[k] = e.prev[k]

\* a pass applied an updater function to a running state that had a field
\* and was not the baseState the pass began with, and the result has that
\* field and a new one
C13_Witness ==
  /\ AfterPass
  /\ \E i \in AppliedWithTag(UpdateState) :
       /\ i > 1
       /\ IsFunction(heap[pass.trace[i].update].payload)
       /\ pass.trace[i].prev # pass.preBaseState
       /\ FieldsOf(pass.trace[i].prev) # {}
       /\ FieldsOf(pass.trace[i].prev) # FieldsOf(pass.trace[i].state)
  /\ RunningState

\* C14: an applied ReplaceState update leaves exactly its payload, or the
\* result of its function payload called with the running state, also when
\* that is null; no field of the previous state is kept.
C14_ReplaceStateReplaces ==
  AfterPass =>
    \A i \in AppliedWithTag(ReplaceState) :
      /\ pass.trace[i].state =
           PayloadValue(pass.trace[i].update, pass.trace[i].prev)
      /\ IsNull(PayloadValue(pass.trace[i].update, pass.trace[i].prev)) =>
           IsNull(pass.trace[i].state)
      /\ heap[pass.trace[i].update].payload.kind = "obj" =>
           FieldsOf(pass.trace[i].state) =
             DOMAIN heap[pass.trace[i].update].payload.obj

\* a pass replaced a state that had a field by null, and so left
\* memoizedState null
C14_Witness ==
  /\ AfterPass
  /\ \E i \in AppliedWithTag(ReplaceState) :
       /\ FieldsOf(pass.trace[i].prev) # {}
       /\ IsNull(pass.trace[i].state)
       /\ i = Len(pass.trace)
  /\ IsNull(fibers[pass.fiber].memoizedState)

\* C15: after a pass checkHasForceUpdateAfterProcessing() is true exactly
\* when the pass applied a ForceUpdate update; an applied ForceUpdate
\* leaves the state as it was; after
\* resetHasForceUpdateBeforeProcessing() the flag is false.
C15_ForceUpdateFlag ==
  /\ AfterPass =>
       /\ checkHasForceUpdateAfterProcessing(World)
            <=> AppliedWithTag(ForceUpdate) # {}
       /\ \A i \in AppliedWithTag(ForceUpdate) :
            pass.trace[i].state = pass.trace[i].prev
  /\ op = "resetHasForceUpdateBeforeProcessing" =>
       ~checkHasForceUpdateAfterProcessing(World)

\* the second pass found the flag set by the first and applied an update,
\* but no ForceUpdate
C15_Witness ==
  /\ AfterPass
  /\ budget.passes >= 2
  /\ \E k \in 1 .. Len(enqueued) : heap[enqueued[k]].tag = ForceUpdate
  /\ \E i \in 1 .. Len(pass.trace) : pass.trace[i].applied
  /\ AppliedWithTag(ForceUpdate) = {}
  /\ ~checkHasForceUpdateAfterProcessing(World)

----------------------------------------------------------------------------
(* cloneUpdateQueue *)

\* what cloneUpdateQueue(current, workInProgress) makes of world w
ClonedFrom(w) == cloneUpdateQueue(w, fibers[wip].alternate, wip)

\* C16: when the queues of the two fibers are the same object,
\* cloneUpdateQueue gives the work-in-progress fiber a new queue object
\* with current's baseState, baseQueue, effects and the same shared record,
\* and changes nothing else; when they differ it changes nothing; current's
\* queue object is never modified; a second call changes nothing.
C16_CloneIsShallowAndIdempotent ==
  wip # 0 /\ fibers[wip].alternate # 0 =>
    LET current == fibers[wip].alternate
        currentQueue == fibers[current].updateQueue
        after == ClonedFrom(World)
        clone == after.fibers[wip].updateQueue
    IN /\ IF fibers[wip].updateQueue = currentQueue
          THEN /\ clone \notin 1 .. Len(queues)
               /\ after.queues[clone].baseState =
                    queues[currentQueue].baseState
               /\ after.queues[clone].baseQueue =
                    queues[currentQueue].baseQueue
               /\ after.queues[clone].effects = queues[currentQueue].effects
               /\ after.queues[clone].shared = queues[currentQueue].shared
               /\ SubSeq(after.queues, 1, Len(queues)) = queues
               /\ after = [World EXCEPT !.queues = after.queues,
                                        !.fibers[wip].updateQueue = clone]
          ELSE after = World
       /\ after.queues[currentQueue] = queues[currentQueue]
       /\ after.fibers[current] = fibers[current]
       /\ ClonedFrom(after) = after

\* the work-in-progress queue is a clone that took over a base queue and
\* the shared record of the current queue
C16_Witness ==
  /\ wip # 0
  /\ fibers[wip].alternate # 0
  /\ fibers[wip].updateQueue # fibers[fibers[wip].alternate].updateQueue
  /\ queues[fibers[wip].updateQueue].baseQueue # 0
  /\ queues[fibers[wip].updateQueue] =
       queues[fibers[fibers[wip].alternate].updateQueue]
  /\ budget.renders = 1

----------------------------------------------------------------------------
(* Flushes of the sync callbacks *)

\* the callbacks invoked since the last flush began, continuations left out
InvokedByFlush ==
  SelectSeq([k \in 1 .. Len(executed) - lastFlush.executedBefore |->
               executed[lastFlush.executedBefore + k]],
            LAMBDA e : ~e.continuation)

\* the queue the last flush had to run: what it found, then what was
\* scheduled while it ran
FlushQueue ==
  lastFlush.queueBefore.items
    \o [k \in 1 .. Len(callbacks) - lastFlush.callbacksBefore |->
          lastFlush.callbacksBefore + k]

\* C17: a flush called from inside a sync callback invokes no callback and
\* leaves the queue as it is; when the flush around it ends without an
\* exception, every callback of the queue has been invoked once, in order,
\* and syncQueue is null.
C17_ReentrantFlushIsNoOp ==
  /\ \A k \in 1 .. Len(reentered) :
       /\ reentered[k].executedAfter = reentered[k].executedBefore
       /\ reentered[k].queueAfter = reentered[k].queueBefore
  /\ lastFlush.entered /\ lastFlush.error = 0 =>
       /\ IsNull(syncQueue)
       /\ [k \in 1 .. Len(InvokedByFlush) |-> InvokedByFlush[k].callback]
            = FlushQueue

\* a flush of three callbacks ended normally; the first of them called
\* flushSyncCallbackQueue
C17_Witness ==
  /\ lastFlush.entered
  /\ lastFlush.error = 0
  /\ Len(FlushQueue) = 3
  /\ callbacks[FlushQueue[1]].kind = "flush"
  /\ Len(InvokedByFlush) = 3
  /\ \E k \in 1 .. Len(reentered) :
       /\ reentered[k].callback = FlushQueue[1]
       /\ reentered[k].executedBefore = lastFlush.executedBefore + 1

\* the position in FlushQueue of the first callback that throws, 0 if none
FirstThrow ==
  IF \E i \in 1 .. Len(FlushQueue) : callbacks[FlushQueue[i]].kind = "throw"
  THEN CHOOSE i \in 1 .. Len(FlushQueue) :
         /\ callbacks[FlushQueue[i]].kind = "throw"
         /\ \A j \in 1 .. i - 1 : callbacks[FlushQueue[j]].kind # "throw"
  ELSE 0

\* C18: when the callback at position i throws during a flush, syncQueue
\* is left with the entries after i in their order, one new callback,
\* flushSyncCallbackQueue, is given to the scheduler at immediate priority,
\* isFlushingSyncQueue is false, and the exception of that callback
\* reaches the caller of the flush.
C18_ThrowKeepsRest ==
  lastFlush.entered /\ FirstThrow # 0 =>
    /\ lastFlush.error = FlushQueue[FirstThrow]
    /\ executed[Len(executed)].callback = FlushQueue[FirstThrow]
    /\ syncQueue =
         Array(SubSeq(FlushQueue, FirstThrow + 1, Len(FlushQueue)))
    /\ Len(tasks) = lastFlush.tasksBefore + 1
    /\ tasks[Len(tasks)] = [priorityLevel |-> Scheduler_ImmediatePriority,
                            callback |-> "flushSyncCallbackQueue",
                            state |-> "scheduled"]
    /\ ~isFlushingSyncQueue

\* the second of three callbacks threw: the third is still queued
C18_Witness ==
  /\ lastFlush.entered
  /\ FirstThrow = 2
  /\ lastFlush.error # 0
  /\ Len(FlushQueue) = 3
  /\ syncQueue = Array(<<FlushQueue[3]>>)

----------------------------------------------------------------------------
(* The suspended range of a root *)

\* C19: after any sequence of markRootSuspendedAtTime,
\* markRootUpdatedAtTime, markRootFinishedAtTime and markRootExpiredAtTime
\* calls on a new root, firstSuspendedTime >= lastSuspendedTime, and
\* firstSuspendedTime is NoWork exactly when lastSuspendedTime is NoWork.
C19_SuspendedRangeOrdered ==
  /\ root.firstSuspendedTime >= root.lastSuspendedTime
  /\ root.firstSuspendedTime = NoWork <=> root.lastSuspendedTime = NoWork

\* an update inside a suspended range of three levels has narrowed it from
\* below
C19_Witness ==
  /\ marked.op = "markRootUpdatedAtTime"
  /\ marked.before.firstSuspendedTime
       >= marked.before.lastSuspendedTime + 2
  /\ root.lastSuspendedTime = marked.expirationTime + 1
  /\ root.firstSuspendedTime > root.lastSuspendedTime

\* C20: after markRootUpdatedAtTime(root, t), isRootSuspendedAtTime(root, u)
\* is false for every u <= t, and for every u > t it has the value it had
\* before the call.
C20_UpdateUnsuspendsAtAndBelow ==
  marked.op = "markRootUpdatedAtTime" =>
    \A u \in NoWork .. MaxRootTime + 1 :
      IF u <= marked.expirationTime
      THEN ~isRootSuspendedAtTime(root, u)
      ELSE isRootSuspendedAtTime(root, u)
             = isRootSuspendedAtTime(marked.before, u)

\* the update found its own level suspended, and a level above it is still
\* suspended
C20_Witness ==
  /\ marked.op = "markRootUpdatedAtTime"
  /\ isRootSuspendedAtTime(marked.before, marked.expirationTime)
  /\ ~isRootSuspendedAtTime(root, marked.expirationTime)
  /\ isRootSuspendedAtTime(root, marked.expirationTime + 1)

\* C21 as stated: an update at or above firstSuspendedTime leaves
\* firstSuspendedTime, lastSuspendedTime and nextKnownPendingLevel at NoWork.
C21_UpdateAboveRangeClearsAll ==
  /\ marked.op = "markRootUpdatedAtTime"
  /\ marked.before.firstSuspendedTime # NoWork
  /\ marked.expirationTime >= marked.before.firstSuspendedTime
  => /\ root.firstSuspendedTime = NoWork
     /\ root.lastSuspendedTime = NoWork
     /\ root.nextKnownPendingLevel = NoWork

\* C21, amended: when markRootUpdatedAtTime(root, t) is called with
\* t >= firstSuspendedTime on a root whose suspended range is not empty,
\* firstSuspendedTime and lastSuspendedTime are NoWork after the call, and
\* nextKnownPendingLevel is t.
C21_UpdateAboveRangeClearsRange ==
  /\ marked.op = "markRootUpdatedAtTime"
  /\ marked.before.firstSuspendedTime # NoWork
  /\ marked.expirationTime >= marked.before.firstSuspendedTime
  => /\ root.firstSuspendedTime = NoWork
     /\ root.lastSuspendedTime = NoWork
     /\ root.nextKnownPendingLevel = marked.expirationTime

\* an update above a range of two levels, on a root that knew a next
\* pending level
C21_Witness ==
  /\ marked.op = "markRootUpdatedAtTime"
  /\ marked.before.firstSuspendedTime > marked.before.lastSuspendedTime
  /\ marked.before.nextKnownPendingLevel # NoWork
  /\ marked.expirationTime > marked.before.firstSuspendedTime
  /\ root.firstSuspendedTime = NoWork

\* the times isRootSuspendedAtTime is asked about
AskedTimes == NoWork .. MaxRootTime + 1

\* C22: after markRootFinishedAtTime(root, finishedT, remainingT) no time
\* u >= finishedT is suspended, every u < finishedT is suspended exactly
\* when it was before the call, and no time is suspended that was not.
C22_FinishUnsuspendsAtAndAbove ==
  marked.op = "markRootFinishedAtTime" =>
    \A u \in AskedTimes :
      /\ u >= marked.expirationTime => ~isRootSuspendedAtTime(root, u)
      /\ u < marked.expirationTime =>
           isRootSuspendedAtTime(root, u)
             = isRootSuspendedAtTime(marked.before, u)
      /\ isRootSuspendedAtTime(root, u)
           => isRootSuspendedAtTime(marked.before, u)

\* the commit found its own level suspended, and the level below it is
\* still suspended
C22_Witness ==
  /\ marked.op = "markRootFinishedAtTime"
  /\ isRootSuspendedAtTime(marked.before, marked.expirationTime)
  /\ ~isRootSuspendedAtTime(root, marked.expirationTime)
  /\ isRootSuspendedAtTime(root, marked.expirationTime - 1)

Maximum(S) == CHOOSE x \in S : \A y \in S : y <= x

Minimum(S) == CHOOSE x \in S : \A y \in S : x <= y

\* C23: after markRootSuspendedAtTime(root, t), t is suspended and so is
\* every time that was suspended before; the range is
\* [min(lastSuspendedTime, t), max(firstSuspendedTime, t)], or [t, t] if it
\* was empty.
C23_SuspendExtendsRange ==
  marked.op = "markRootSuspendedAtTime" =>
    /\ isRootSuspendedAtTime(root, marked.expirationTime)
    /\ \A u \in AskedTimes :
         isRootSuspendedAtTime(marked.before, u)
           => isRootSuspendedAtTime(root, u)
    /\ IF marked.before.firstSuspendedTime = NoWork
       THEN /\ root.firstSuspendedTime = marked.expirationTime
            /\ root.lastSuspendedTime = marked.expirationTime
       ELSE /\ root.firstSuspendedTime =
                 Maximum({marked.before.firstSuspendedTime,
                          marked.expirationTime})
            /\ root.lastSuspendedTime =
                 Minimum({marked.before.lastSuspendedTime,
                          marked.expirationTime})

\* a suspension below a range of two levels
C23_Witness ==
  /\ marked.op = "markRootSuspendedAtTime"
  /\ marked.before.firstSuspendedTime > marked.before.lastSuspendedTime
  /\ marked.expirationTime < marked.before.lastSuspendedTime
  /\ root.lastSuspendedTime = marked.expirationTime
  /\ root.firstSuspendedTime = marked.before.firstSuspendedTime

\* what markRootSuspendedAtTime did to a marker
Cleared(field) ==
  /\ marked.before[field] # NoWork
  /\ root[field] = NoWork

Unchanged(field) == root[field] = marked.before[field]

\* C24 as stated: markRootSuspendedAtTime(root, t) clears lastPingedTime
\* and lastExpiredTime exactly when the marker is <= t, and leaves a marker
\* above t unchanged.
C24_SuspendClearsMarkersAtOrBelow ==
  marked.op = "markRootSuspendedAtTime" =>
    \A field \in {"lastPingedTime", "lastExpiredTime"} :
      marked.before[field] # NoWork =>
        IF marked.before[field] <= marked.expirationTime
        THEN Cleared(field)
        ELSE Unchanged(field)

\* C24, amended: markRootSuspendedAtTime(root, t) clears lastPingedTime and
\* lastExpiredTime exactly when the marker is >= t (the same or a higher
\* priority than the newly suspended level), and leaves a marker below t
\* unchanged.
C24_SuspendClearsMarkersAtOrAbove ==
  marked.op = "markRootSuspendedAtTime" =>
    \A field \in {"lastPingedTime", "lastExpiredTime"} :
      marked.before[field] # NoWork =>
        IF marked.before[field] >= marked.expirationTime
        THEN Cleared(field)
        ELSE Unchanged(field)

\* a suspension at the level of the ping and above the expiry
C24_Witness ==
  /\ marked.op = "markRootSuspendedAtTime"
  /\ marked.before.lastPingedTime = marked.expirationTime
  /\ marked.before.lastExpiredTime # NoWork
  /\ marked.before.lastExpiredTime < marked.expirationTime
  /\ root.lastPingedTime = NoWork
  /\ root.lastExpiredTime = marked.before.lastExpiredTime

\* C25 as stated: after markRootExpiredAtTime calls on a root that held no
\* expiry, with no markRootSuspendedAtTime or markRootFinishedAtTime
\* between them, lastExpiredTime is the largest of the times marked.
C25_ExpiredKeepsLargest ==
  since.expired # {} /\ since.tracked = NoWork =>
    root.lastExpiredTime = Maximum(since.expired)

\* C25, amended: after any sequence of markRootExpiredAtTime calls with no
\* markRootSuspendedAtTime or markRootFinishedAtTime between them,
\* lastExpiredTime is the lowest-priority (numerically smallest) of the
\* times that were marked and of the expiry the root held before them.
C25_ExpiredKeepsSmallest ==
  since.expired # {} =>
    root.lastExpiredTime =
      Minimum(since.expired \cup ({since.tracked} \ {NoWork}))

\* two times were marked on a root that held no expiry, the larger last
C25_Witness ==
  /\ marked.op = "markRootExpiredAtTime"
  /\ since.tracked = NoWork
  /\ Cardinality(since.expired) >= 2
  /\ marked.expirationTime = Maximum(since.expired)
  /\ root.lastExpiredTime < marked.expirationTime

\* C26: markRootUpdatedAtTime raises firstPendingTime to max(old, t),
\* markRootFinishedAtTime sets it to remainingT, so that after a
\* markRootFinishedAtTime and updates at t1..tn it is
\* max(remainingT, t1, ..., tn); markRootSuspendedAtTime and
\* markRootExpiredAtTime leave it unchanged.
C26_FirstPendingTime ==
  /\ since.kept = "pending" =>
       root.firstPendingTime
         = Maximum({since.remaining} \cup since.updated)
  /\ marked.op = "markRootUpdatedAtTime" =>
       root.firstPendingTime =
         Maximum({marked.before.firstPendingTime, marked.expirationTime})
  /\ marked.op = "markRootFinishedAtTime" /\ since.kept = "pending" =>
       /\ root.firstPendingTime = since.remaining
       /\ since.updated = {}
  /\ marked.op \in {"markRootSuspendedAtTime", "markRootExpiredAtTime"} =>
       root.firstPendingTime = marked.before.firstPendingTime

\* after a commit with work remaining, two updates: the second below the
\* first
C26_Witness ==
  /\ marked.op = "markRootUpdatedAtTime"
  /\ since.remaining # NoWork
  /\ Cardinality(since.updated) = 2
  /\ marked.expirationTime < root.firstPendingTime
  /\ since.remaining < root.firstPendingTime

----------------------------------------------------------------------------
(* Times in ms and expiration times *)

\* the order of two times in ms
WideLess(a, b) == a.hi < b.hi \/ (a.hi = b.hi /\ a.lo < b.lo)

\* a time n ms after the time a, for 0 <= n <= Int32Max
WidePlus(a, n) ==
  IF a.lo > Int32Max - n
  THEN Wide(a.hi + 1, (a.lo - Int32Max) + (n - 1))
  ELSE Wide(a.hi, a.lo + n)

\* the whole part of a / den, for a time a and den large enough for the
\* quotient to be below 2^31
WideQuotient(a, den) ==
  a.hi * ((Int32Max \div den) + (IF Int32Max % den = den - 1 THEN 1 ELSE 0))
    + (a.lo \div den)
    + ((a.hi * (((Int32Max % den) + 1) % den) + (a.lo % den)) \div den)

\* C27: msToExpirationTime is strictly decreasing in ms: for any two times
\* ms1 < ms2, msToExpirationTime(ms1) > msToExpirationTime(ms2).
C27_StrictlyDecreasing ==
  clock.op = "msToExpirationTime" /\ WideLess(clock.in1, clock.in2) =>
    clock.out1 > clock.out2

\* C28: for every time ms >= 0, msToExpirationTime(ms) < Batched < Sync,
\* with (ms / 10) | 0 the truncation to a signed 32-bit integer.
C28_BelowReservedBand ==
  clock.op = "msToExpirationTime" =>
    /\ clock.out1 < Batched
    /\ Batched < Sync

\* C29: msToExpirationTime(expirationTimeToMs(t)) = t for every expiration
\* time t <= MAGIC_NUMBER_OFFSET, and
\* expirationTimeToMs(msToExpirationTime(ms)) = ms - (ms mod 10) for every
\* whole ms >= 0 within range (here: below 2^31).
C29_ThereAndBack ==
  /\ clock.op = "msToExpirationTime(expirationTimeToMs)"
       /\ clock.in1 <= MAGIC_NUMBER_OFFSET =>
         clock.out2 = clock.in1
  /\ clock.op = "expirationTimeToMs(msToExpirationTime)"
       /\ clock.in1.hi = 0 =>
         clock.out2 = clock.in1.lo - (clock.in1.lo % 10)

\* a time in the middle of a unit came back as the start of the unit
C29_Witness ==
  /\ clock.op = "expirationTimeToMs(msToExpirationTime)"
  /\ clock.in1.hi = 0
  /\ clock.in1.lo % 10 = 7
  /\ clock.in1.lo > 100
  /\ clock.out2 = clock.in1.lo - 7

\* the bucket of a call: computeExpirationBucket quantizes the time of the
\* call plus the expiration into windows of the batch size
BucketOf(ms, expirationInMs, bucketSizeMs) ==
  WideQuotient(WidePlus(ms, expirationInMs), bucketSizeMs)

SameBucket ==
  IF clock.op = "computeInteractiveExpiration"
  THEN BucketOf(clock.in1, HIGH_PRIORITY_EXPIRATION(clock.DEV),
                HIGH_PRIORITY_BATCH_SIZE)
         = BucketOf(clock.in2, HIGH_PRIORITY_EXPIRATION(clock.DEV),
                    HIGH_PRIORITY_BATCH_SIZE)
  ELSE BucketOf(clock.in1, LOW_PRIORITY_EXPIRATION, LOW_PRIORITY_BATCH_SIZE)
         = BucketOf(clock.in2, LOW_PRIORITY_EXPIRATION,
                    LOW_PRIORITY_BATCH_SIZE)

\* C30: two computeInteractiveExpiration calls whose times are in the same
\* 100 ms bucket return the same expiration time, and two calls whose times
\* are on both sides of a bucket boundary return different ones; likewise
\* computeAsyncExpiration with buckets of 250 ms.
C30_SameBucketSameExpiration ==
  clock.op \in {"computeInteractiveExpiration", "computeAsyncExpiration"} =>
    (SameBucket <=> clock.out1 = clock.out2)

\* the priority the claim gives an expiration time that lies msUntil ms
\* ahead of the current time
ClassOf(DEV, msUntil) ==
  IF msUntil <= 0 THEN ImmediatePriority
  ELSE IF msUntil <= (IF DEV THEN 500 ELSE 150) + 100
       THEN UserBlockingPriority
  ELSE IF msUntil <= 5000 + 250 THEN NormalPriority
  ELSE IdlePriority

\* C31: inferPriorityFromExpirationTime(currentTime, t) is Immediate for
\* t = Sync, Idle for t = Never or Idle, and otherwise the class of
\* msUntil, the ms from currentTime to t: Immediate up to 0, UserBlocking up
\* to the interactive window + 100, Normal up to 5000 + 250, Idle beyond;
\* it is never LowPriority or NoPriority.
C31_InferredPriority ==
  clock.op = "inferPriorityFromExpirationTime" =>
    /\ clock.out1 =
         (IF clock.in2 = Sync THEN ImmediatePriority
          ELSE IF clock.in2 \in {Never, Idle} THEN IdlePriority
          ELSE ClassOf(clock.DEV, (clock.in1 - clock.in2) * 10))
    /\ clock.out1 \notin {LowPriority, NoPriority}

\* an expiration time exactly the interactive window and one bucket ahead
\* is still UserBlocking
C31_Witness ==
  /\ clock.op = "inferPriorityFromExpirationTime"
  /\ ~clock.DEV
  /\ clock.in1 - clock.in2 = 25
  /\ clock.out1 = UserBlockingPriority

\* C38: computeExpirationBucket(currentTime, windowMs, bucketMs) returns r
\* with MAGIC_NUMBER_OFFSET - r a multiple of bucketMs / 10 and
\* currentTime - windowMs/10 - bucketMs/10 <= r < currentTime - windowMs/10
\* (the bounds are compared in ms: times 10).
C38_BucketBounds ==
  clock.op = "computeExpirationBucket" =>
    /\ (MAGIC_NUMBER_OFFSET - clock.out1) % (clock.out2 \div 10) = 0
    /\ (clock.in1 - clock.out1) * 10 <= clock.in2 + clock.out2
    /\ clock.in2 < (clock.in1 - clock.out1) * 10

\* C40: for every currentTime the priority inferred for
\* computeInteractiveExpiration(currentTime) is UserBlocking, the one
\* inferred for computeAsyncExpiration(currentTime) is Normal, and
\* computeInteractiveExpiration(currentTime) >
\* computeAsyncExpiration(currentTime).
C40_InferredMatchesPolicy ==
  /\ clock.op = "inferPriority(computeInteractiveExpiration)" =>
       /\ clock.out2 = UserBlockingPriority
       /\ clock.out1 > clock.in2
  /\ clock.op = "inferPriority(computeAsyncExpiration)" =>
       /\ clock.out2 = NormalPriority
       /\ clock.in2 > clock.out1

\* the five priority levels of React
FivePriorityLevels ==
  {ImmediatePriority, UserBlockingPriority, NormalPriority, LowPriority,
   IdlePriority}

\* C32: inside runWithPriority(p, fn), for each of the five priority
\* levels p, getCurrentPriorityLevel() returns p (and q inside a nested
\* runWithPriority(q, ...), and p again after it), and when fn returns the
\* scheduler's priority level is the one before the call; for NoPriority
\* and every other level runWithPriority raises the invariant violation,
\* fn is not called and the priority level stays as it was.
C32_PriorityMapping ==
  ran.op = "runWithPriority" =>
    IF ran.reactPriorityLevel \in FivePriorityLevels
    THEN /\ Len(ran.seen) >= 1
         /\ ran.seen[1] = ran.reactPriorityLevel
         /\ ran.error = "none" => ran.after = ran.before
         /\ ran.fn.kind = "nest" /\ ran.fn.inner \in FivePriorityLevels =>
              /\ Len(ran.seen) >= 2
              /\ ran.seen[2] = ran.fn.inner
              /\ ran.fn.innerKind = "read" =>
                   /\ ran.error = "none"
                   /\ ran.seen = <<ran.reactPriorityLevel, ran.fn.inner,
                                   ran.reactPriorityLevel>>
         /\ ran.fn.kind = "nest" /\ ran.fn.inner \notin FivePriorityLevels =>
              /\ ran.error = "invariant"
              /\ ran.seen = <<ran.reactPriorityLevel>>
    ELSE /\ ran.error = "invariant"
         /\ ran.seen = <<>>
         /\ ran.after = ran.before

\* LowPriority seen inside runWithPriority(LowPriority, ...), UserBlocking
\* inside the nested call, LowPriority after it, and the level restored
C32_Witness ==
  /\ ran.op = "runWithPriority"
  /\ ran.reactPriorityLevel = LowPriority
  /\ ran.fn.kind = "nest"
  /\ ran.seen = <<LowPriority, UserBlockingPriority, LowPriority>>
  /\ ran.error = "none"
  /\ ran.after = Scheduler_NormalPriority

\* the continuations a callback of a kind returns before null is returned
ContinuationsOf(kind) ==
  CASE kind = "continue" -> 1
    [] kind = "continueTwice" -> 2
    [] OTHER -> 0

\* the invocations that running the first n callbacks of a queue consists
\* of: each callback, then its continuations
RECURSIVE InvocationsOf(_, _)
InvocationsOf(queue, n) ==
  IF n = 0 THEN <<>>
  ELSE InvocationsOf(queue, n - 1)
         \o <<[callback |-> queue[n], continuation |-> FALSE]>>
         \o [k \in 1 .. ContinuationsOf(callbacks[queue[n]].kind) |->
               [callback |-> queue[n], continuation |-> TRUE]]

\* the invocations since the last flush began, continuations included
InvocationsByFlush ==
  [k \in 1 .. Len(executed) - lastFlush.executedBefore |->
     [callback |-> executed[lastFlush.executedBefore + k].callback,
      continuation |-> executed[lastFlush.executedBefore + k].continuation]]

\* C36: a flush invokes the callbacks of the queue in the order they were
\* passed to scheduleSyncCallback, each followed by its continuations until
\* one returns null, before the next callback is started; the callbacks
\* that scheduleSyncCallback appends during the flush are invoked in the
\* same flush, after those queued before them (up to the first callback
\* that throws, if one does).
C36_FlushOrder ==
  /\ lastFlush.entered =>
       /\ \A i \in 1 .. Len(FlushQueue) - 1 : FlushQueue[i] < FlushQueue[i + 1]
       /\ InvocationsByFlush =
            InvocationsOf(FlushQueue,
                          IF FirstThrow # 0 THEN FirstThrow
                          ELSE Len(FlushQueue))
  /\ \A i, j \in 1 .. Len(executed) :
       i < j /\ ~executed[j].continuation =>
         executed[i].callback < executed[j].callback

\* a flush found two callbacks, the first with two continuations and the
\* second one that schedules a third, and invoked all three
C36_Witness ==
  /\ lastFlush.entered
  /\ lastFlush.error = 0
  /\ Len(lastFlush.queueBefore.items) = 2
  /\ Len(FlushQueue) = 3
  /\ callbacks[FlushQueue[1]].kind = "continueTwice"
  /\ callbacks[FlushQueue[2]].kind = "schedule"
  /\ Len(InvocationsByFlush) = 5
  /\ InvocationsByFlush[5].callback = FlushQueue[3]

\* C37: scheduleSyncCallback gives the scheduler a callback, at immediate
\* priority, exactly when syncQueue was null; when the queue exists it
\* gives the scheduler nothing (also during a flush); every call returns
\* fakeCallbackNode; cancelCallback(fakeCallbackNode) leaves the tasks of
\* the scheduler and syncQueue as they were.
C37_ScheduleOnlyOnCreation ==
  /\ asked.op = "scheduleSyncCallback" =>
       /\ asked.returned = fakeCallbackNode
       /\ syncQueue.items[Len(syncQueue.items)] = asked.argument
       /\ IF IsNull(asked.queueBefore)
          THEN /\ tasks = Append(asked.tasksBefore,
                                 [priorityLevel |-> Scheduler_ImmediatePriority,
                                  callback |-> "flushSyncCallbackQueueImpl",
                                  state |-> "scheduled"])
               /\ immediateQueueCallbackNode = Len(tasks)
          ELSE tasks = asked.tasksBefore
  /\ asked.op = "cancelCallback" /\ asked.argument = fakeCallbackNode =>
       /\ tasks = asked.tasksBefore
       /\ syncQueue = asked.queueBefore
  /\ lastFlush.entered /\ lastFlush.error = 0 =>
       Len(tasks) = lastFlush.tasksBefore

\* cancelCallback(fakeCallbackNode) found two callbacks in the queue and one
\* flush waiting at the scheduler, and left them
C37_Witness ==
  /\ asked.op = "cancelCallback"
  /\ asked.argument = fakeCallbackNode
  /\ ~IsNull(syncQueue)
  /\ Len(syncQueue.items) = 2
  /\ Len(tasks) = 1
  /\ tasks[1].state = "scheduled"
  /\ immediateQueueCallbackNode = 1

\* a flush of the sync queue waits at the scheduler
FlushScheduled ==
  \E n \in 1 .. Len(tasks) :
    /\ tasks[n].state = "scheduled"
    /\ tasks[n].callback \in {"flushSyncCallbackQueueImpl",
                              "flushSyncCallbackQueue"}

\* callback c was invoked
Invoked(c) == \E k \in 1 .. Len(executed) : executed[k].callback = c

\* every callback passed to scheduleSyncCallback so far was invoked
AllInvoked == \A c \in 1 .. Len(callbacks) : Invoked(c)

\* C39: if the scheduler runs, sooner or later, every callback it was
\* given and that was not cancelled, every callback passed to
\* scheduleSyncCallback is invoked in the end (whatever was passed so far,
\* a moment comes when all of it has been invoked); after every operation
\* (scheduleSyncCallback, flushSyncCallbackQueue, a flush run by the
\* scheduler, with callbacks that flush again or throw) a syncQueue that
\* holds callbacks has a flush waiting at the scheduler, and
\* isFlushingSyncQueue is false.
C39_EveryCallbackInvoked ==
  /\ [](/\ ~IsNull(syncQueue) /\ syncQueue.items # <<>> => FlushScheduled
        /\ ~isFlushingSyncQueue)
  /\ []<>AllInvoked

\* the first callback threw in a flush called by the work loop, and the
\* flush the catch clause asked for was run by the scheduler and invoked
\* the callback that was left
C39_Witness ==
  /\ Len(callbacks) = 2
  /\ callbacks[1].kind = "throw"
  /\ Invoked(2)
  /\ Len(tasks) = 2
  /\ tasks[1].state = "cancelled"
  /\ tasks[2].callback = "flushSyncCallbackQueue"
  /\ tasks[2].state = "done"
  /\ lastFlush.entered
  /\ lastFlush.executedBefore = 1

----------------------------------------------------------------------------
(* Updates applied after a skipped one *)

\* the expiration time the update named id was enqueued with
EnqueuedTime(id) ==
  heap[CHOOSE u \in {enqueued[k] : k \in 1 .. Len(enqueued)} :
         heap[u].id = id].expirationTime

\* C33: in a pass, every update applied after the first skipped one is
\* kept in the new baseQueue, at its place in the order, as a clone whose
\* expirationTime is Sync; and an update whose expirationTime is Sync is
\* applied by every pass, whatever its render expiration time.
C33_AppliedAfterSkipKeptAsSync ==
  /\ AfterPass /\ pass.ran /\ FirstSkip # 0 =>
       \A i \in FirstSkip .. Len(Visited) :
         i \notin Skipped =>
           /\ i - FirstSkip + 1 <= Len(Retained)
           /\ heap[Retained[i - FirstSkip + 1]].id = heap[Visited[i]].id
           /\ heap[Retained[i - FirstSkip + 1]].payload
                = heap[Visited[i]].payload
           /\ heap[Retained[i - FirstSkip + 1]].expirationTime = Sync
  /\ AfterPass =>
       \A k \in 1 .. Len(pass.trace) :
         heap[pass.trace[k].update].expirationTime = Sync =>
           pass.trace[k].applied

\* a pass applied, after a skipped update, a clone stamped Sync of an
\* update that was enqueued with an expiration time below the render
\* expiration time of the pass, and kept it once more
C33_Witness ==
  /\ AfterPass
  /\ FirstSkip # 0
  /\ \E i \in FirstSkip + 1 .. Len(Visited) :
       /\ heap[Visited[i]].expirationTime = Sync
       /\ pass.trace[i].applied
       /\ ByEnqueueUpdate(Visited[i])
       /\ EnqueuedTime(heap[Visited[i]].id) < pass.renderExpirationTime
       /\ i - FirstSkip + 1 <= Len(Retained)
       /\ heap[Retained[i - FirstSkip + 1]].expirationTime = Sync

\* C35: after a pass a baseQueue that is not null is a circular list:
\* following next from baseQueue.next visits every retained update once,
\* the oldest first and baseQueue, the newest, last, and the next of
\* baseQueue is the oldest again.
C35_BaseQueueIsCircularList ==
  AfterPass /\ PassQueue.baseQueue # 0 =>
    /\ FirstSkip # 0
    /\ Len(Retained) = Len(Visited) - FirstSkip + 1
    /\ Retained[Len(Retained)] = PassQueue.baseQueue
    /\ heap[PassQueue.baseQueue].next = Retained[1]
    /\ \A i \in 1 .. Len(Retained) - 1 :
         heap[Retained[i]].next = Retained[i + 1]
    /\ \A i, j \in 1 .. Len(Retained) : i # j => Retained[i] # Retained[j]
    /\ heap[Retained[1]].id = heap[Visited[FirstSkip]].id
    /\ heap[PassQueue.baseQueue].id = heap[Visited[Len(Visited)]].id

\* a pass left a baseQueue of three updates
C35_Witness ==
  /\ AfterPass
  /\ PassQueue.baseQueue # 0
  /\ Len(Retained) = 3
  /\ heap[heap[heap[heap[PassQueue.baseQueue].next].next].next].next
       = heap[PassQueue.baseQueue].next
  /\ heap[heap[PassQueue.baseQueue].next].next # PassQueue.baseQueue

----------------------------------------------------------------------------
(* Updates enqueued by an updater function during a pass *)

\* the positions of the trace at which an updater function that enqueues
\* an update was called
Reentered ==
  {k \in 1 .. Len(pass.trace) :
     /\ pass.trace[k].applied
     /\ heap[pass.trace[k].update].payload.kind = "enqueue"}

\* the number of times getStateFromUpdate calls an updater function of the
\* fiber of the pass
Calls ==
  IF /\ build.DEV
     /\ build.debugRenderPhaseSideEffectsForStrictMode
     /\ HasBit(fibers[pass.fiber].mode, StrictMode)
  THEN 2 ELSE 1

\* the positions of the trace at which the pass visited an update that the
\* updater function called at position k enqueued
EnqueuedBy(k) ==
  {j \in Len(Visited) + 1 .. Len(pass.trace) :
     /\ j > k
     /\ heap[pass.trace[j].update].id =
          heap[pass.trace[k].update].payload.arg + MaxUpdates
     /\ heap[pass.trace[j].update].expirationTime =
          heap[pass.trace[k].update].payload.obj.time}

\* C34: an update that an updater function enqueues on the queue while
\* processUpdateQueue walks it is visited in the same pass, after every
\* update that was in the queue when the pass began; shared.pending is
\* null when the pass returns.  (One update for each call of the updater
\* function.)
C34_ReentrantProcessedInSamePass ==
  AfterPass =>
    /\ shared[PassQueue.shared].pending = 0
    /\ pass.ran =>
         /\ Len(pass.trace) = Len(Visited) + Calls * Cardinality(Reentered)
         /\ [i \in 1 .. Len(Visited) |-> pass.trace[i].update] = Visited
         /\ \A k \in Reentered : Cardinality(EnqueuedBy(k)) = Calls

\* the updater function of the first of two updates was called twice and
\* enqueued two updates; the pass visited the second update and then the
\* two new ones, and applied them
C34_Witness ==
  /\ AfterPass
  /\ Calls = 2
  /\ Len(Visited) = 2
  /\ Reentered = {1}
  /\ EnqueuedBy(1) = {3, 4}
  /\ pass.trace[3].applied
  /\ pass.trace[4].applied
  /\ pass.trace[3].update # pass.trace[4].update
  /\ shared[PassQueue.shared].pending = 0

====
